---- MODULE Spec2Model ----
(***************************************************************************)
(* A model of the CFG post-processing passes of sorbet's cfg builder       *)
(* (CFGBuilder::simplify, sanityCheck, dealias, markLoopHeaders,           *)
(* removeDeadAssigns, computeMinMaxLoops, fillInBlockArguments and         *)
(* topoSortFwd).  Basic blocks are records indexed by their id; pointers   *)
(* to blocks are ids.                                                      *)
(* Every pass is translated from its code.                                 *)
(***************************************************************************)
EXTENDS Integers, Sequences, FiniteSets, TLC

VARIABLES
    blocks,            \* id -> BasicBlock record (the heap; erased blocks keep their last content)
    basicBlocks,       \* cfg.basicBlocks: the sequence of owned blocks, as ids
    forwardsTopoSort,  \* cfg.forwardsTopoSort
    minLoops,          \* cfg.minLoops: a map from the variables it has a key for
    maxLoopWrite,      \* cfg.maxLoopWrite: likewise
    rnw,               \* CFG::ReadsAndWrites: [reads, writes, dead], each id -> set of variables
    erased,            \* ids of the blocks simplify erased from basicBlocks (freed)
    pc,                \* position of the running pass
    it,                \* simplify: the iterator into basicBlocks (1-based index)
    changed,           \* simplify: the flag of the sweep loop
    lastRule,          \* simplify: the rule the last loop iteration applied; then the pass called last
    tick,              \* simplify: the number of rule applications so far, modulo 2
    run,               \* 1 in the first call of a pass, 2 in the call repeated on its result; the number of the next call
    snapshot,          \* the CFG as the first call of simplify returned it; the CFG before the last call
    topo,              \* topoSortFwd: [target, nextFree, inProgress] of the last call
    lspQuery,          \* ctx.state.lspQuery is not empty
    aliases            \* dealias: [in, out], the alias map at the start and at the end of each block

vars == <<blocks, basicBlocks, forwardsTopoSort, minLoops, maxLoopWrite, rnw, erased,
          pc, it, changed, lastRule, tick, run, snapshot, topo, lspQuery, aliases>>

----------------------------------------------------------------------------
(* Bounds of the model. *)

\* An input of simplify departs in at most this many places from the plain CFG,
\* in which every block is empty, has rubyBlockId 0 and outerLoops 0 and ends in
\* a conditionalJump on a named variable to one and the same block.
MaxSpecial == 2

\* outerLoops of a block handed to the passes after simplify is 0..MaxLoopDepth.
MaxLoopDepth == 1

\* The ids of the blocks of a CFG: entry, deadBlock and two more.
BlockIds == {0, 1, 2, 3}
MaxBlockId == Cardinality(BlockIds) - 1
maxBasicBlockId == MaxBlockId + 1

\* cfg.entry() is basicBlocks[0] and cfg.deadBlock() is basicBlocks[1].
entry == 0
deadBlock == 1
LiveIds == BlockIds \ {deadBlock}
InnerIds == BlockIds \ {entry, deadBlock}

\* LocalVariable sentinels.
unconditional == "<unconditional>"
blockCall == "<blockCall>"

WAS_JUMP_DESTINATION == "WAS_JUMP_DESTINATION"
LOOP_HEADER == "LOOP_HEADER"

----------------------------------------------------------------------------
(* Sequence helpers, computed as the standard algorithms compute them. *)

Range(s) == {s[i] : i \in 1 .. Len(s)}

\* std::remove + erase: drops every occurrence of x.
Remove(s, x) == SelectSeq(s, LAMBDA y : y # x)

Count(s, x) == Cardinality({i \in 1 .. Len(s) : s[i] = x})

\* fast_sort(bb->backEdges, by id): the elements of s in ascending order of id,
\* each as often as it is in s.
SortById(s) ==
    [i \in 1 .. Len(s) |->
        CHOOSE x \in Range(s) :
            LET below == Cardinality({j \in 1 .. Len(s) : s[j] < x})
            IN  below < i /\ i <= below + Count(s, x)]

\* std::unique + erase: drops every element equal to the one before it.
Unique(s) ==
    LET keep == {i \in 1 .. Len(s) : i = 1 \/ s[i] # s[i - 1]}
    IN  [k \in 1 .. Cardinality(keep) |->
            s[CHOOSE i \in keep : Cardinality({j \in keep : j <= i}) = k]]

----------------------------------------------------------------------------
(* CFGBuilder::sanityCheck: the conjunction of its ENFORCEs. *)

SanityCheck(bs, bbs) ==
    \A b \in Range(bbs) :
        /\ \A parent \in Range(bs[b].backEdges) :
               bs[parent].thenb = b \/ bs[parent].elseb = b
        /\ b # deadBlock =>
               /\ b # entry => WAS_JUMP_DESTINATION \in bs[b].flags
               /\ b \in Range(bs[bs[b].thenb].backEdges)
               /\ b \in Range(bs[bs[b].elseb].backEdges)

----------------------------------------------------------------------------
(* CFGBuilder::simplify, one action per iteration of its inner loop. *)

\* Lines 42-50: dedupe bb's back edges, drop the condition of an unconditional jump.
Deduped(bs, bb) ==
    [bs EXCEPT ![bb].backEdges = Unique(SortById(bs[bb].backEdges)),
               ![bb].cond = IF bs[bb].thenb = bs[bb].elseb THEN unconditional ELSE @]

CanRemove(bs, bb) ==
    bb # deadBlock /\ bb # entry /\ bs[bb].backEdges = <<>>

Squashable(bs, bb) ==
    LET thenb == bs[bb].thenb
        elseb == bs[bb].elseb
    IN  thenb = elseb /\ thenb # deadBlock /\ thenb # bb
        /\ bs[bb].rubyBlockId = bs[thenb].rubyBlockId

\* The test of the fusion without the comparison of outerLoops.
CanFuseAcrossLoops(bs, bb) ==
    LET thenb == bs[bb].thenb
    IN  Squashable(bs, bb) /\ Len(bs[thenb].backEdges) = 1

CanFuse(bs, bb) ==
    LET thenb == bs[bb].thenb
    IN  Squashable(bs, bb)
        /\ Len(bs[thenb].backEdges) = 1 /\ bs[thenb].outerLoops = bs[bb].outerLoops

\* The test of the collapse without the exemption of block headers.
CanCollapseBlockHeaders(bs, bb) ==
    LET thenb == bs[bb].thenb
    IN  Squashable(bs, bb) /\ ~CanFuse(bs, bb) /\ bs[thenb].exprs = <<>>

CanCollapse(bs, bb) ==
    LET thenb == bs[bb].thenb
    IN  Squashable(bs, bb) /\ ~CanFuse(bs, bb)
        /\ bs[thenb].cond # blockCall /\ bs[thenb].exprs = <<>>

CanShortcutThen(bs, bb) ==
    LET thenb == bs[bb].thenb
    IN  thenb # deadBlock /\ bs[bb].rubyBlockId = bs[thenb].rubyBlockId
        /\ bs[thenb].exprs = <<>>
        /\ bs[thenb].thenb = bs[thenb].elseb /\ bs[bb].thenb # bs[thenb].thenb

CanShortcutElse(bs, bb) ==
    LET thenb == bs[bb].thenb
        elseb == bs[bb].elseb
    IN  elseb # deadBlock /\ bs[bb].rubyBlockId = bs[thenb].rubyBlockId
        /\ bs[elseb].exprs = <<>>
        /\ bs[elseb].thenb = bs[elseb].elseb /\ bs[bb].elseb # bs[elseb].elseb

\* The branch the loop body takes for bb: the if-chain of lines 25-106.
SimplifyRule(bs, bb) ==
    IF CanRemove(bs, bb) THEN "remove"
    ELSE LET d == Deduped(bs, bb)
         IN  IF CanFuse(d, bb) THEN "fuse"
             ELSE IF CanCollapse(d, bb) THEN "collapse"
             ELSE IF CanShortcutThen(d, bb) THEN "then"
             ELSE IF CanShortcutElse(d, bb) THEN "else"
             ELSE "none"

\* A moved-from Binding: make_move_iterator leaves the element in place with a
\* null instruction.
MovedFrom(b) == [b EXCEPT !.kind = "null", !.ops = <<>>]

MovedFromAll(s) == [i \in 1 .. Len(s) |-> MovedFrom(s[i])]

\* emplace_back(bb) on the back edges of the new successors (lines 60-63, 74-77).
Relink(bs, bb) ==
    LET t == bs[bb].thenb
        e == bs[bb].elseb
        b1 == [bs EXCEPT ![t].backEdges = Append(@, bb)]
    IN  IF t # e THEN [b1 EXCEPT ![e].backEdges = Append(@, bb)] ELSE b1

\* Lines 27-32.
RemoveEffect(bs, bb) ==
    LET thenb == bs[bb].thenb
        elseb == bs[bb].elseb
        b1 == [bs EXCEPT ![thenb].backEdges = Remove(@, bb)]
    IN  IF elseb # thenb THEN [b1 EXCEPT ![elseb].backEdges = Remove(@, bb)] ELSE b1

\* Lines 54-63.
FuseEffect(bs, bb) ==
    LET thenb == bs[bb].thenb
        b1 == [bs EXCEPT ![bb].exprs = @ \o bs[thenb].exprs,
                         ![thenb].exprs = MovedFromAll(@),
                         ![thenb].backEdges = <<>>,
                         ![bb].cond = bs[thenb].cond,
                         ![bb].thenb = bs[thenb].thenb,
                         ![bb].elseb = bs[thenb].elseb]
    IN  Relink(b1, bb)

\* Lines 69-77.
CollapseEffect(bs, bb) ==
    LET thenb == bs[bb].thenb
        b1 == [bs EXCEPT ![bb].cond = bs[thenb].cond,
                         ![bb].thenb = bs[thenb].thenb,
                         ![bb].elseb = bs[thenb].elseb,
                         ![thenb].backEdges = Remove(@, bb)]
    IN  Relink(b1, bb)

\* Lines 86-89.
ShortcutThenEffect(bs, bb) ==
    LET thenb == bs[bb].thenb
        b1 == [bs EXCEPT ![bb].thenb = bs[thenb].thenb]
        b2 == [b1 EXCEPT ![b1[thenb].thenb].backEdges = Append(@, bb)]
    IN  [b2 EXCEPT ![thenb].backEdges = Remove(@, bb)]

\* Lines 98-101.
ShortcutElseEffect(bs, bb) ==
    LET elseb == bs[bb].elseb
        b1 == [bs EXCEPT ![bb].elseb = bs[elseb].elseb]
        b2 == [b1 EXCEPT ![b1[bb].elseb].backEdges = Append(@, bb)]
    IN  [b2 EXCEPT ![elseb].backEdges = Remove(@, bb)]

\* The blocks other than bb that one iteration reads or writes, sanityCheck
\* left aside: the comparator of fast_sort reads every member of bb's back
\* edges when there are two or more (line 44), each test reads the blocks its
\* short-circuit evaluation reaches, and the rule taken relinks the new exits.
Derefs(bs, bb) ==
    LET thenb == bs[bb].thenb
        elseb == bs[bb].elseb
        rule == SimplifyRule(bs, bb)
        sorted == IF Len(bs[bb].backEdges) >= 2 THEN Range(bs[bb].backEdges) ELSE {}
        squashTest == IF thenb = elseb /\ thenb # deadBlock THEN {thenb} ELSE {}
        thenTest == IF thenb # deadBlock THEN {thenb} ELSE {}
        elseTest == IF elseb = deadBlock THEN {}
                    ELSE {thenb} \cup (IF bs[bb].rubyBlockId = bs[thenb].rubyBlockId
                                       THEN {elseb} ELSE {})
        touched ==
            IF rule = "remove" THEN {thenb, elseb}
            ELSE IF rule \in {"fuse", "collapse"}
                 THEN sorted \cup {thenb, bs[thenb].thenb, bs[thenb].elseb}
            ELSE IF rule = "then"
                 THEN sorted \cup squashTest \cup {thenb, bs[thenb].thenb}
            ELSE sorted \cup squashTest \cup thenTest \cup elseTest
                    \cup (IF rule = "else" THEN {bs[elseb].elseb} ELSE {})
    IN  touched \ {bb}

\* The blocks sanityCheck reads when debug_mode is on (lines 115-129): every
\* block of basicBlocks, its back edges and, but for deadBlock, its exits.
SanityDerefs(bs, bbs) ==
    UNION {{b} \cup Range(bs[b].backEdges)
               \cup (IF b = deadBlock THEN {} ELSE {bs[b].thenb, bs[b].elseb}) :
           b \in Range(bbs)}

InLoop == pc = "loop" /\ it <= Len(basicBlocks)

CurBB == basicBlocks[it]

\* Lines 12-20: the early return under a language-server query, then the first
\* sanityCheck and the entry into the sweep loop.
SimplifyBegin ==
    /\ pc = "start"
    /\ IF lspQuery
       THEN pc' = "returned" /\ UNCHANGED <<it, changed>>
       ELSE pc' = "loop" /\ it' = 1 /\ changed' = FALSE
    /\ lastRule' = "none"
    /\ UNCHANGED <<blocks, basicBlocks, forwardsTopoSort, minLoops, maxLoopWrite, rnw,
                   erased, tick, run, snapshot, topo, lspQuery, aliases>>

\* Lines 25-39: remove a block nothing jumps to.
SimplifyRemove ==
    /\ InLoop /\ SimplifyRule(blocks, CurBB) = "remove"
    /\ blocks' = RemoveEffect(blocks, CurBB)
    /\ basicBlocks' = Remove(basicBlocks, CurBB)
    /\ forwardsTopoSort' = Remove(forwardsTopoSort, CurBB)
    /\ erased' = erased \cup {CurBB}
    /\ changed' = TRUE /\ lastRule' = "remove" /\ tick' = 1 - tick
    /\ UNCHANGED <<minLoops, maxLoopWrite, rnw, pc, it, run, snapshot, topo, lspQuery, aliases>>

\* Lines 51-66: squash bb with its only successor.
SimplifyFuse ==
    /\ InLoop /\ SimplifyRule(blocks, CurBB) = "fuse"
    /\ blocks' = FuseEffect(Deduped(blocks, CurBB), CurBB)
    /\ changed' = TRUE /\ lastRule' = "fuse" /\ tick' = 1 - tick
    /\ UNCHANGED <<basicBlocks, forwardsTopoSort, minLoops, maxLoopWrite, rnw, erased,
                   pc, it, run, snapshot, topo, lspQuery, aliases>>

\* Lines 67-81: jump over an empty successor.
SimplifyCollapse ==
    /\ InLoop /\ SimplifyRule(blocks, CurBB) = "collapse"
    /\ blocks' = CollapseEffect(Deduped(blocks, CurBB), CurBB)
    /\ changed' = TRUE /\ lastRule' = "collapse" /\ tick' = 1 - tick
    /\ UNCHANGED <<basicBlocks, forwardsTopoSort, minLoops, maxLoopWrite, rnw, erased,
                   pc, it, run, snapshot, topo, lspQuery, aliases>>

\* Lines 83-93.
SimplifyShortcutThen ==
    /\ InLoop /\ SimplifyRule(blocks, CurBB) = "then"
    /\ blocks' = ShortcutThenEffect(Deduped(blocks, CurBB), CurBB)
    /\ changed' = TRUE /\ lastRule' = "then" /\ tick' = 1 - tick
    /\ UNCHANGED <<basicBlocks, forwardsTopoSort, minLoops, maxLoopWrite, rnw, erased,
                   pc, it, run, snapshot, topo, lspQuery, aliases>>

\* Lines 94-105.
SimplifyShortcutElse ==
    /\ InLoop /\ SimplifyRule(blocks, CurBB) = "else"
    /\ blocks' = ShortcutElseEffect(Deduped(blocks, CurBB), CurBB)
    /\ changed' = TRUE /\ lastRule' = "else" /\ tick' = 1 - tick
    /\ UNCHANGED <<basicBlocks, forwardsTopoSort, minLoops, maxLoopWrite, rnw, erased,
                   pc, it, run, snapshot, topo, lspQuery, aliases>>

\* Line 106: no rule applies to bb.
SimplifyAdvance ==
    /\ InLoop /\ SimplifyRule(blocks, CurBB) = "none"
    /\ blocks' = Deduped(blocks, CurBB)
    /\ it' = it + 1 /\ lastRule' = "none"
    /\ UNCHANGED <<basicBlocks, forwardsTopoSort, minLoops, maxLoopWrite, rnw, erased,
                   pc, changed, tick, run, snapshot, topo, lspQuery, aliases>>

\* Lines 19-21: the end of a sweep; another sweep while something changed.
SimplifySweepEnd ==
    /\ pc = "loop" /\ it > Len(basicBlocks)
    /\ IF changed
       THEN pc' = "loop" /\ it' = 1 /\ changed' = FALSE
       ELSE pc' = "returned" /\ UNCHANGED <<it, changed>>
    /\ lastRule' = "none"
    /\ UNCHANGED <<blocks, basicBlocks, forwardsTopoSort, minLoops, maxLoopWrite, rnw,
                   erased, tick, run, snapshot, topo, lspQuery, aliases>>

\* The CFG as an observer sees it: the owned blocks and the two orders.
Observed == [blocks |-> [b \in Range(basicBlocks) |-> blocks[b]],
             basicBlocks |-> basicBlocks,
             forwardsTopoSort |-> forwardsTopoSort]

\* simplify is called again on its own result.
SimplifyAgain ==
    /\ pc = "returned" /\ run = 1
    /\ run' = 2 /\ snapshot' = Observed
    /\ pc' = "start"
    /\ UNCHANGED <<blocks, basicBlocks, forwardsTopoSort, minLoops, maxLoopWrite, rnw,
                   erased, it, changed, lastRule, tick, topo, lspQuery, aliases>>

----------------------------------------------------------------------------
(* The CFGs handed to simplify. *)

NoBinding == <<>>

\* The binding a non-empty input block of simplify holds: a call whose result is
\* a variable named after the block.
BlockVar(b) == <<"a", "d", "b", "c", "e">>[b + 1]

CallBinding(b) == [bind |-> BlockVar(b), kind |-> "Send", ops |-> <<"self">>, synth |-> FALSE]

\* The back edges the builder records for block t: conditionalJump appends the
\* source to thenb and to elseb (twice when they are the same block),
\* unconditionalJump appends it once.
RECURSIVE BuilderBackEdges(_, _, _)
BuilderBackEdges(bs, t, from) ==
    IF from > MaxBlockId THEN <<>>
    ELSE (IF from = deadBlock THEN <<>>
          ELSE IF bs[from].cond = unconditional
               THEN (IF bs[from].thenb = t THEN <<from>> ELSE <<>>)
               ELSE (IF bs[from].thenb = t THEN <<from>> ELSE <<>>)
                    \o (IF bs[from].elseb = t THEN <<from>> ELSE <<>>))
         \o BuilderBackEdges(bs, t, from + 1)

WithBackEdges(bs) == [b \in BlockIds |-> [bs[b] EXCEPT !.backEdges = BuilderBackEdges(bs, b, 0)]]

DeadBlockRecord ==
    [thenb |-> deadBlock, elseb |-> deadBlock, cond |-> unconditional, rubyBlockId |-> 0,
     outerLoops |-> 0, exprs |-> <<>>, backEdges |-> <<>>, flags |-> {WAS_JUMP_DESTINATION},
     args |-> <<>>, fwdId |-> -1]

\* The places where an input of simplify departs from the plain CFG: blocks that
\* hold a binding, end in a blockCall condition, end in an unconditionalJump, lie
\* in another ruby block, lie in a loop.
SpecialCount(s) ==
    Cardinality(s.full) + Cardinality(s.header) + Cardinality(s.jump)
      + Cardinality(s.scoped) + Cardinality(s.looped)

Specials ==
    {s \in [full : SUBSET LiveIds, header : SUBSET LiveIds, jump : SUBSET LiveIds,
            scoped : SUBSET InnerIds, looped : SUBSET InnerIds] :
        SpecialCount(s) <= MaxSpecial /\ s.header \cap s.jump = {}}

\* The blocks that branch to two different blocks.
Branches(exits) == {b \in LiveIds : exits[b][1] # exits[b][2]}

SimplifyInput(exits, s) ==
    WithBackEdges(
        [b \in BlockIds |->
            IF b = deadBlock THEN DeadBlockRecord
            ELSE [thenb |-> exits[b][1], elseb |-> exits[b][2],
                  cond |-> IF b \in s.header THEN blockCall
                           ELSE IF b \in s.jump THEN unconditional ELSE "self",
                  rubyBlockId |-> IF b \in s.scoped THEN 1 ELSE 0,
                  outerLoops |-> IF b \in s.looped THEN 1 ELSE 0,
                  exprs |-> IF b \in s.full THEN <<CallBinding(b)>> ELSE NoBinding,
                  backEdges |-> <<>>,
                  flags |-> {WAS_JUMP_DESTINATION},
                  args |-> <<>>, fwdId |-> -1]])

EmptyRnW == [reads |-> [b \in BlockIds |-> {}], writes |-> [b \in BlockIds |-> {}],
             dead |-> [b \in BlockIds |-> {}]]

\* dealias not called yet.
NoAliases == [in |-> <<>>, out |-> <<>>]

IdleTopo == [target |-> <<>>, nextFree |-> 0, inProgress |-> {}]

\* A CFG whose blocks all lie in one ruby block, outside loops, and end in no
\* blockCall condition.
Flat(s) == s.header = {} /\ s.scoped = {} /\ s.looped = {}

\* The state in which simplify is called: on any CFG over BlockIds within
\* MaxSpecial, or on the flat ones only.
InitSimplifyWith(flatOnly, recorded) ==
    /\ \E exits \in [LiveIds -> BlockIds \X BlockIds], s \in Specials :
          /\ \A b \in s.jump : exits[b][1] = exits[b][2]
          /\ Cardinality(Branches(exits)) + SpecialCount(s) <= MaxSpecial
          /\ flatOnly => Flat(s)
          /\ blocks = SimplifyInput(exits, s)
    /\ basicBlocks = [i \in 1 .. MaxBlockId + 1 |-> i - 1]
    /\ forwardsTopoSort = <<>>
    /\ minLoops = <<>> /\ maxLoopWrite = <<>>
    /\ rnw = EmptyRnW
    /\ erased = {}
    /\ pc = "start" /\ it = 1 /\ changed = FALSE /\ lastRule = "none" /\ tick = 0
    /\ run = 1 /\ snapshot = (IF recorded THEN blocks ELSE <<>>)
    /\ topo = IdleTopo
    /\ aliases = NoAliases
    /\ lspQuery = FALSE

InitSimplifyFrom(flatOnly) == InitSimplifyWith(flatOnly, FALSE)

InitSimplify == InitSimplifyFrom(FALSE)

\* The same call, with the CFG handed to simplify kept in snapshot.
InitRecorded == InitSimplifyWith(FALSE, TRUE)

InitFlat == InitSimplifyFrom(TRUE)

\* With debug_mode off no iteration of simplify dereferences a block that
\* simplify erased.
NoUseAfterFree == InLoop => Derefs(blocks, CurBB) \cap erased = {}

\* With debug_mode on the sanityCheck that follows a rule reads no erased
\* block. It does not hold: a block erased while another block still has it
\* as an exit is read through that exit (lines 126-127).
NoUseAfterFreeDebug ==
    (pc = "loop" /\ lastRule # "none") => SanityDerefs(blocks, basicBlocks) \cap erased = {}

NextSimplify ==
    \/ SimplifyBegin
    \/ SimplifyRemove
    \/ SimplifyFuse
    \/ SimplifyCollapse
    \/ SimplifyShortcutThen
    \/ SimplifyShortcutElse
    \/ SimplifyAdvance
    \/ SimplifySweepEnd
    \/ SimplifyAgain

Spec == InitSimplify /\ [][NextSimplify]_vars

SpecRecorded == InitRecorded /\ [][NextSimplify]_vars

\* simplify runs to completion without suspending: a step that can be taken is
\* eventually taken.
FairSpec == InitFlat /\ [][NextSimplify]_vars /\ WF_vars(NextSimplify)

----------------------------------------------------------------------------
(* CFGBuilder::topoSortFwd. *)

\* The recursion's state: the blocks (for fwdId), the target vector, nextFree,
\* and the edges from -> to that were explored while `to` was in progress.
Explore(st, from, to) ==
    IF st.blocks[to].fwdId = -2
    THEN [st EXCEPT !.inProgress = @ \cup {<<from, to>>}]
    ELSE st

\* topoSortFwd numbering a block before its successors (a pre-order).
RECURSIVE topoSortFwdPreOrder(_, _)
topoSortFwdPreOrder(st, currentBB) ==
    IF st.blocks[currentBB].fwdId # -1 THEN st
    ELSE LET thenb == st.blocks[currentBB].thenb
             elseb == st.blocks[currentBB].elseb
             elseFirst == st.blocks[thenb].outerLoops > st.blocks[elseb].outerLoops
             first == IF elseFirst THEN elseb ELSE thenb
             second == IF elseFirst THEN thenb ELSE elseb
             s0 == [st EXCEPT !.target[st.nextFree + 1] = currentBB,
                              !.blocks[currentBB].fwdId = -2,
                              !.nextFree = st.nextFree + 1]
             s1 == topoSortFwdPreOrder(Explore(s0, currentBB, first), first)
             s2 == topoSortFwdPreOrder(Explore(s1, currentBB, second), second)
         IN  [s2 EXCEPT !.blocks[currentBB].fwdId = st.nextFree]

\* topoSortFwd following only one exit of every block.
RECURSIVE topoSortFwdOneExit(_, _)
topoSortFwdOneExit(st, currentBB) ==
    IF st.blocks[currentBB].fwdId # -1 THEN st
    ELSE LET thenb == st.blocks[currentBB].thenb
             elseb == st.blocks[currentBB].elseb
             elseFirst == st.blocks[thenb].outerLoops > st.blocks[elseb].outerLoops
             first == IF elseFirst THEN elseb ELSE thenb
             s0 == [st EXCEPT !.blocks[currentBB].fwdId = -2]
             s1 == topoSortFwdOneExit(Explore(s0, currentBB, first), first)
         IN  [s1 EXCEPT !.target[s1.nextFree + 1] = currentBB,
                        !.blocks[currentBB].fwdId = s1.nextFree,
                        !.nextFree = s1.nextFree + 1]

\* The exit topoSortFwd follows first and the one it follows second.
FirstExit(block, bs) ==
    IF bs[block.thenb].outerLoops > bs[block.elseb].outerLoops THEN block.elseb ELSE block.thenb

SecondExit(block, bs) ==
    IF bs[block.thenb].outerLoops > bs[block.elseb].outerLoops THEN block.thenb ELSE block.elseb

\* target[nextFree] = currentBB; currentBB->fwdId = nextFree; return nextFree + 1
Numbered(st, currentBB) ==
    [st EXCEPT !.target[st.nextFree + 1] = currentBB,
               !.blocks[currentBB].fwdId = st.nextFree,
               !.nextFree = st.nextFree + 1]

RECURSIVE topoSortFwd(_, _)
topoSortFwd(st, currentBB) ==
    IF st.blocks[currentBB].fwdId # -1 THEN st
    ELSE LET first == FirstExit(st.blocks[currentBB], st.blocks)
             second == SecondExit(st.blocks[currentBB], st.blocks)
         IN  Numbered(
                 topoSortFwd(
                     Explore(
                         topoSortFwd(
                             Explore([st EXCEPT !.blocks[currentBB].fwdId = -2], currentBB, first),
                             first),
                         currentBB, second),
                     second),
                 currentBB)

\* The call topoSortFwd(target, 0, cfg.entry()) on a target as long as
\* basicBlocks; slots not written hold no block.
NoBlock == MaxBlockId + 1

TopoSorted(bs, bbs) ==
    topoSortFwd([blocks |-> bs, target |-> [i \in 1 .. Len(bbs) |-> NoBlock],
                 nextFree |-> 0, inProgress |-> {}], entry)

TopoSortFwd ==
    /\ pc = "topoSortFwd"
    /\ \E r \in {TopoSorted(blocks, basicBlocks)} :
           /\ blocks' = r.blocks
           /\ topo' = [target |-> r.target, nextFree |-> r.nextFree, inProgress |-> r.inProgress]
           /\ forwardsTopoSort' = [i \in 1 .. r.nextFree |-> r.target[i]]
    /\ pc' = "sorted"
    /\ UNCHANGED <<basicBlocks, minLoops, maxLoopWrite, rnw, erased, it, changed,
                   lastRule, tick, run, snapshot, lspQuery, aliases>>

\* The CFGs handed to topoSortFwd: any exits and loop depths, no block numbered.
TopoInput(exits, depth) ==
    WithBackEdges(
        [b \in BlockIds |->
            IF b = deadBlock THEN DeadBlockRecord
            ELSE [thenb |-> exits[b][1], elseb |-> exits[b][2],
                  cond |-> IF exits[b][1] = exits[b][2] THEN unconditional ELSE "self",
                  rubyBlockId |-> 0,
                  outerLoops |-> depth[b],
                  exprs |-> NoBinding,
                  backEdges |-> <<>>,
                  flags |-> {WAS_JUMP_DESTINATION},
                  args |-> <<>>, fwdId |-> -1]])

InitTopo ==
    /\ \E exits \in [LiveIds -> BlockIds \X BlockIds], depth \in [LiveIds -> 0 .. MaxLoopDepth] :
          /\ depth[entry] = 0
          /\ blocks = TopoInput(exits, depth)
    /\ basicBlocks = [i \in 1 .. MaxBlockId + 1 |-> i - 1]
    /\ forwardsTopoSort = <<>>
    /\ minLoops = <<>> /\ maxLoopWrite = <<>>
    /\ rnw = EmptyRnW
    /\ erased = {}
    /\ pc = "topoSortFwd" /\ it = 1 /\ changed = FALSE /\ lastRule = "none" /\ tick = 0
    /\ run = 1 /\ snapshot = <<>>
    /\ topo = IdleTopo
    /\ aliases = NoAliases
    /\ lspQuery = FALSE

NextTopo == TopoSortFwd

SpecTopo == InitTopo /\ [][NextTopo]_vars

----------------------------------------------------------------------------
(* removeDeadAssigns, computeMinMaxLoops and fillInBlockArguments. *)

\* core::LocalVariable: the variables of the modelled methods, in the order of
\* operator<; "g" is the one that aliases a global, "t" and "u" are the
\* synthetic temporaries.
Variables == <<"g", "t", "u", "x", "y">>

VarRank(v) == CHOOSE i \in 1 .. Len(Variables) : Variables[i] = v

isAliasForGlobal(v) == v = "g"

\* The instructions removeDeadAssigns treats as free of side effects.
SideEffectFree == {"Ident", "Literal", "LoadSelf", "LoadArg", "LoadYieldParams"}

Binds(block) == {block.exprs[i].bind : i \in 1 .. Len(block.exprs)}

\* wasRead without the two loops over the arguments of the successors.
KeepsBindingReadInBlock(bs, r, bb, bind) ==
    \/ isAliasForGlobal(bind.bind)
    \/ bind.bind \in r.reads[bb]
    \/ bind.kind \notin SideEffectFree

\* wasRead, or the binding is kept for another reason.
KeepsBinding(bs, r, bb, bind) ==
    \/ isAliasForGlobal(bind.bind)
    \/ bind.bind \in r.reads[bb]
    \/ bind.bind \in Range(bs[bs[bb].thenb].args)
    \/ bind.bind \in Range(bs[bs[bb].elseb].args)
    \/ bind.kind \notin SideEffectFree

\* removeDeadAssigns that also unlinks a block it leaves without bindings.
removeDeadAssignsAndEdges(bs, bbs, r, lsp) ==
    IF lsp THEN bs
    ELSE [b \in DOMAIN bs |->
            IF b \in Range(bbs)
            THEN LET kept == SelectSeq(bs[b].exprs, LAMBDA e : KeepsBinding(bs, r, b, e))
                 IN  [bs[b] EXCEPT !.exprs = kept,
                                   !.backEdges = IF kept = <<>> THEN <<>> ELSE @]
            ELSE bs[b]]

\* removeDeadAssigns without the early return under a language-server query.
removeDeadAssignsUnderQuery(bs, bbs, r, lsp) ==
    [b \in DOMAIN bs |->
        IF b \in Range(bbs)
        THEN [bs[b] EXCEPT !.exprs = SelectSeq(@, LAMBDA e : KeepsBinding(bs, r, b, e))]
        ELSE bs[b]]

removeDeadAssigns(bs, bbs, r, lsp) ==
    IF lsp THEN bs
    ELSE [b \in DOMAIN bs |->
            IF b \in Range(bbs)
            THEN [bs[b] EXCEPT !.exprs = SelectSeq(@, LAMBDA e : KeepsBinding(bs, r, b, e))]
            ELSE bs[b]]

Min(S) == CHOOSE x \in S : \A y \in S : x <= y
Max(S) == CHOOSE x \in S : \A y \in S : x >= y

\* computeMinMaxLoops without the update of minLoops in its second loop.
computeMinMaxLoopsOfReads(bs, bbs, r, mins, maxs) ==
    LET live == Range(bbs) \ {deadBlock}
        readers(v) == {b \in live : v \in r.reads[b]}
        writers(v) == {b \in live : v \in Binds(bs[b])}
        read == UNION {r.reads[b] : b \in live}
        bound == UNION {Binds(bs[b]) : b \in live}
        depths(S) == {bs[b].outerLoops : b \in S}
        prior(m, v) == IF v \in DOMAIN m THEN {m[v]} ELSE {}
    IN  [minLoops |->
            [v \in DOMAIN mins \cup read |-> Min(prior(mins, v) \cup depths(readers(v)))],
         maxLoopWrite |->
            [v \in DOMAIN maxs \cup bound |->
                Max(prior(maxs, v) \cup {0} \cup depths(writers(v)))]]

\* The two loops of computeMinMaxLoops: minLoops[v] is the least outerLoops of
\* the blocks that read or bind v (and of an earlier entry), maxLoopWrite[v]
\* the greatest outerLoops of the blocks that bind v, at least 0.
computeMinMaxLoops(bs, bbs, r, mins, maxs) ==
    LET live == Range(bbs) \ {deadBlock}
        readers(v) == {b \in live : v \in r.reads[b]}
        writers(v) == {b \in live : v \in Binds(bs[b])}
        read == UNION {r.reads[b] : b \in live}
        bound == UNION {Binds(bs[b]) : b \in live}
        depths(S) == {bs[b].outerLoops : b \in S}
        prior(m, v) == IF v \in DOMAIN m THEN {m[v]} ELSE {}
    IN  [minLoops |->
            [v \in DOMAIN mins \cup read \cup bound |->
                Min(prior(mins, v) \cup depths(readers(v) \cup writers(v)))],
         maxLoopWrite |->
            [v \in DOMAIN maxs \cup bound |->
                Max(prior(maxs, v) \cup {0} \cup depths(writers(v)))]]

\* cfg.minLoops[dead]: operator[] of a map, which yields 0 for a missing key.
MinLoopsAt(mins, v) == IF v \in DOMAIN mins THEN mins[v] ELSE 0

\* One visit of block bb in the upperBounds1 loop; c is the pass's context
\* [bs, r, mins, fts].
UpperBounds1Visit(c, u, bb) ==
    LET thenb == c.bs[bb].thenb
        elseb == c.bs[bb].elseb
        grown == u[bb] \cup (IF thenb # deadBlock THEN u[thenb] ELSE {})
                       \cup (IF elseb # deadBlock THEN u[elseb] ELSE {})
        kill == {d \in c.r.dead[bb] : c.bs[bb].outerLoops <= MinLoopsAt(c.mins, d)}
    IN  [u EXCEPT ![bb] = grown \ kill]

\* One visit of block bb in the upperBounds2 loop.
UpperBounds2Visit(c, u, bb) ==
    LET edges == Range(c.bs[bb].backEdges) \ {deadBlock}
    IN  [u EXCEPT ![bb] = @ \cup UNION {c.r.writes[e] \cup u[e] : e \in edges}]

\* One sweep over the blocks of order, from position i on; acc is [u, changed].
RECURSIVE Sweep(_, _, _, _, _)
Sweep(c, first, order, i, acc) ==
    IF i > Len(order) THEN acc
    ELSE LET bb == order[i]
             u == IF first THEN UpperBounds1Visit(c, acc.u, bb)
                           ELSE UpperBounds2Visit(c, acc.u, bb)
         IN  Sweep(c, first, order, i + 1,
                   [u |-> u,
                    changed |-> acc.changed \/ Cardinality(u[bb]) # Cardinality(acc.u[bb])])

\* while (changed): sweep until no visited set changed its size.
RECURSIVE WhileChanged(_, _, _, _)
WhileChanged(c, first, order, u) ==
    LET swept == Sweep(c, first, order, 1, [u |-> u, changed |-> FALSE])
    IN  IF swept.changed THEN WhileChanged(c, first, order, swept.u) ELSE swept.u

Reverse(s) == [i \in 1 .. Len(s) |-> s[Len(s) + 1 - i]]

upperBounds1(c) ==
    WhileChanged(c, TRUE, c.fts,
                 [b \in BlockIds |-> IF b \in Range(c.fts) THEN c.r.reads[b] ELSE {}])

upperBounds2(c) ==
    WhileChanged(c, FALSE, Reverse(c.fts), [b \in BlockIds |-> {}])

\* args left in the order the elements were appended.
fast_sort_skipped(args) == args

\* fast_sort of args by lhs.variable < rhs.variable.
fast_sort(args) ==
    [i \in 1 .. Len(args) |->
        CHOOSE x \in Range(args) :
            LET below == Cardinality({j \in 1 .. Len(args) : VarRank(args[j]) < VarRank(x)})
            IN  below < i /\ i <= below + Count(args, x)]

\* The elements of either upper bound.
upperBoundsUnion(set1, set2) == set1 \cup set2

\* The elements of upperBounds1[it] found in upperBounds2[it].
upperBoundsMerge(set1, set2) == {el \in set1 : el \in set2}

\* The merge loop body: the elements of the intersection are appended to args
\* in the iteration order of an unordered set, here the order they have in
\* hashOrder, and args is sorted.
FilledArgs(args, set1, set2, hashOrder) ==
    fast_sort(args \o SelectSeq(hashOrder, LAMBDA v : v \in upperBoundsMerge(set1, set2)))

----------------------------------------------------------------------------
(* The passes in the order of the pipeline: the read/write/dead summary,
   removeDeadAssigns, computeMinMaxLoops, fillInBlockArguments. *)

\* CFG::findAllReadsAndWrites: a block reads the operands of its instructions
\* and the variable it branches on, writes the variables it binds, and a
\* variable is dead in it when it is bound before the block has read it.
ReadsOf(block) ==
    UNION {Range(block.exprs[i].ops) : i \in 1 .. Len(block.exprs)}
        \cup (IF block.cond \in {unconditional, blockCall} THEN {} ELSE {block.cond})

DeadOf(block) ==
    {v \in Binds(block) :
        LET first == Min({i \in 1 .. Len(block.exprs) : block.exprs[i].bind = v})
        IN  \A j \in 1 .. first : v \notin Range(block.exprs[j].ops)}

findAllReadsAndWrites(bs, bbs) ==
    [reads |-> [b \in BlockIds |-> IF b \in Range(bbs) THEN ReadsOf(bs[b]) ELSE {}],
     writes |-> [b \in BlockIds |-> IF b \in Range(bbs) THEN Binds(bs[b]) ELSE {}],
     dead |-> [b \in BlockIds |-> IF b \in Range(bbs) THEN DeadOf(bs[b]) ELSE {}]]

FindAllReadsAndWrites ==
    /\ pc = "findAllReadsAndWrites"
    /\ rnw' = findAllReadsAndWrites(blocks, basicBlocks)
    /\ pc' = "removeDeadAssigns"
    /\ UNCHANGED <<blocks, basicBlocks, forwardsTopoSort, minLoops, maxLoopWrite, erased,
                   it, changed, lastRule, tick, run, snapshot, topo, lspQuery, aliases>>

\* snapshot keeps the blocks as they were before the pass.
RemoveDeadAssigns ==
    /\ pc = "removeDeadAssigns"
    /\ snapshot' = blocks
    /\ blocks' = removeDeadAssigns(blocks, basicBlocks, rnw, lspQuery)
    /\ pc' = "computeMinMaxLoops"
    /\ UNCHANGED <<basicBlocks, forwardsTopoSort, minLoops, maxLoopWrite, rnw, erased,
                   it, changed, lastRule, tick, run, topo, lspQuery, aliases>>

ComputeMinMaxLoops ==
    /\ pc = "computeMinMaxLoops"
    /\ LET r == computeMinMaxLoops(blocks, basicBlocks, rnw, minLoops, maxLoopWrite)
       IN  minLoops' = r.minLoops /\ maxLoopWrite' = r.maxLoopWrite
    /\ pc' = "fillInBlockArguments"
    /\ UNCHANGED <<blocks, basicBlocks, forwardsTopoSort, rnw, erased,
                   it, changed, lastRule, tick, run, snapshot, topo, lspQuery, aliases>>

PassContext == [bs |-> blocks, r |-> rnw, mins |-> minLoops, fts |-> forwardsTopoSort]

\* The orders in which an unordered set may hand out the variables of S.
HashOrders(S) == {o \in [1 .. Cardinality(S) -> S] : Range(o) = S}

FillInBlockArguments ==
    /\ pc = "fillInBlockArguments"
    /\ LET looked == UNION {rnw.dead[b] : b \in Range(forwardsTopoSort)}
       IN  /\ \E u1 \in {upperBounds1(PassContext)}, u2 \in {upperBounds2(PassContext)},
                  hashOrder \in HashOrders(UNION {upperBounds1(PassContext)[b] : b \in BlockIds}) :
                 blocks' = [b \in BlockIds |->
                               IF b \in Range(basicBlocks)
                               THEN [blocks[b] EXCEPT !.args = FilledArgs(@, u1[b], u2[b], hashOrder)]
                               ELSE blocks[b]]
           /\ minLoops' = [v \in DOMAIN minLoops \cup looked |-> MinLoopsAt(minLoops, v)]
    /\ pc' = "done"
    /\ UNCHANGED <<basicBlocks, forwardsTopoSort, maxLoopWrite, rnw, erased,
                   it, changed, lastRule, tick, run, snapshot, topo, lspQuery, aliases>>

\* The instruction sequences a block of the input holds.
Instr(bind, kind, ops) == [bind |-> bind, kind |-> kind, ops |-> ops, synth |-> FALSE]

ExprsMenu ==
    << <<Instr("x", "Literal", <<>>)>>,
       <<Instr("x", "Literal", <<>>), Instr("y", "Literal", <<>>)>>,
       <<Instr("t", "Send", <<"x", "y">>)>>,
       <<Instr("x", "Send", <<"x">>)>>,
       <<Instr("g", "Literal", <<>>), Instr("y", "Ident", <<"x">>)>> >>

\* What sets an input apart from a CFG of empty blocks outside loops: the
\* blocks that hold instructions, the blocks inside a loop, an active query.
PassSpecialCount(s) ==
    Cardinality({b \in LiveIds : s.ex[b] # 0}) + Cardinality({b \in InnerIds : s.depth[b] # 0})
        + (IF s.lsp THEN 1 ELSE 0)

PassSpecials ==
    {s \in [ex : [LiveIds -> 0 .. Len(ExprsMenu)],
            depth : [InnerIds -> 0 .. MaxLoopDepth],
            lsp : BOOLEAN] : PassSpecialCount(s) <= MaxSpecial}

\* The CFG as simplify leaves it: back edges sorted and without duplicates (and
\* every block but entry and deadBlock with a predecessor, which InitPasses
\* requires of the exits).
PassInput(exits, s) ==
    LET raw == WithBackEdges(
                [b \in BlockIds |->
                    IF b = deadBlock THEN DeadBlockRecord
                    ELSE [thenb |-> exits[b][1], elseb |-> exits[b][2],
                          cond |-> IF exits[b][1] = exits[b][2] THEN unconditional ELSE "x",
                          rubyBlockId |-> 0,
                          outerLoops |-> IF b = entry THEN 0 ELSE s.depth[b],
                          exprs |-> IF s.ex[b] = 0 THEN NoBinding ELSE ExprsMenu[s.ex[b]],
                          backEdges |-> <<>>,
                          flags |-> {},
                          args |-> <<>>, fwdId |-> -1]])
    IN  [b \in BlockIds |-> [raw[b] EXCEPT !.backEdges = Unique(SortById(@))]]

\* The numbered blocks in the order of their fwdId.
ByFwdId(bs) ==
    [i \in 1 .. Cardinality({b \in DOMAIN bs : bs[b].fwdId >= 0}) |->
        CHOOSE b \in DOMAIN bs : bs[b].fwdId = i - 1]

\* The exits of the blocks of such a CFG, by the number of branching blocks.
PassExits ==
    [k \in 0 .. MaxSpecial |->
        {exits \in [LiveIds -> BlockIds \X BlockIds] :
            /\ Cardinality(Branches(exits)) = k
            /\ \A b \in InnerIds : \E p \in LiveIds : b = exits[p][1] \/ b = exits[p][2]}]

PassSpecialsWithin ==
    [k \in 0 .. MaxSpecial |-> {s \in PassSpecials : PassSpecialCount(s) <= k}]

InitPasses ==
    /\ \E k \in 0 .. MaxSpecial :
          \E exits \in PassExits[k], s \in PassSpecialsWithin[MaxSpecial - k] :
              /\ \E input \in {PassInput(exits, s)} :
                    blocks = TopoSorted(input, [i \in 1 .. MaxBlockId + 1 |-> i - 1]).blocks
              /\ lspQuery = s.lsp
    /\ forwardsTopoSort = ByFwdId(blocks)
    /\ basicBlocks = [i \in 1 .. MaxBlockId + 1 |-> i - 1]
    /\ minLoops = <<>> /\ maxLoopWrite = <<>>
    /\ rnw = EmptyRnW
    /\ erased = {}
    /\ pc = "findAllReadsAndWrites" /\ it = 1 /\ changed = FALSE /\ lastRule = "none" /\ tick = 0
    /\ run = 1 /\ snapshot = <<>>
    /\ topo = IdleTopo
    /\ aliases = NoAliases

NextPasses ==
    \/ FindAllReadsAndWrites
    \/ RemoveDeadAssigns
    \/ ComputeMinMaxLoops
    \/ FillInBlockArguments

SpecPasses == InitPasses /\ [][NextPasses]_vars

\* The instruction sequences a block of the CFGs with a loop holds: a variable
\* bound and then read in the block, a variable bound for a later block, the
\* reader of that variable.
LoopMenu ==
    << <<>>,
       <<Instr("t", "Literal", <<>>), Instr("y", "Send", <<"t">>)>>,
       <<Instr("x", "Literal", <<>>), Instr("u", "Literal", <<>>), Instr("y", "Send", <<"u">>)>>,
       <<Instr("y", "Send", <<"x">>)>>,
       <<Instr("x", "Literal", <<>>)>>,
       <<Instr("x", "Send", <<"x">>)>> >>

\* The shapes of these CFGs: a loop through entry, a block that jumps to
\* itself, a loop of two blocks, a straight line and a diamond; a branching
\* block branches on cond.
LoopShapes ==
    { [exits |-> (0 :> <<2, 3>> @@ 2 :> <<0, 0>> @@ 3 :> <<deadBlock, deadBlock>>), cond |-> c] :
          c \in {"t", "x"} }
    \cup
    { [exits |-> (0 :> <<2, 2>> @@ 2 :> <<2, 3>> @@ 3 :> <<deadBlock, deadBlock>>), cond |-> "x"],
      [exits |-> (0 :> <<2, 2>> @@ 2 :> <<3, deadBlock>> @@ 3 :> <<2, 2>>), cond |-> "x"],
      [exits |-> (0 :> <<2, 2>> @@ 2 :> <<3, 3>> @@ 3 :> <<deadBlock, deadBlock>>), cond |-> "x"],
      [exits |-> (0 :> <<2, 3>> @@ 2 :> <<3, 3>> @@ 3 :> <<deadBlock, deadBlock>>), cond |-> "t"] }

\* The CFG of a shape whose block b holds LoopMenu[ex[b]] at loop depth
\* depth[b], back edges as simplify leaves them.
LoopInput(shape, ex, depth) ==
    LET raw == WithBackEdges(
                [b \in BlockIds |->
                    IF b = deadBlock THEN DeadBlockRecord
                    ELSE [thenb |-> shape.exits[b][1], elseb |-> shape.exits[b][2],
                          cond |-> IF shape.exits[b][1] = shape.exits[b][2]
                                   THEN unconditional ELSE shape.cond,
                          rubyBlockId |-> 0,
                          outerLoops |-> IF b = entry THEN 0 ELSE depth[b],
                          exprs |-> LoopMenu[ex[b]],
                          backEdges |-> <<>>,
                          flags |-> {},
                          args |-> <<>>, fwdId |-> -1]])
    IN  [b \in BlockIds |-> [raw[b] EXCEPT !.backEdges = Unique(SortById(@))]]

InitLoops ==
    /\ \E shape \in LoopShapes, ex \in [LiveIds -> 1 .. Len(LoopMenu)],
          depth \in [InnerIds -> 0 .. MaxLoopDepth] :
          \E input \in {LoopInput(shape, ex, depth)} :
              blocks = TopoSorted(input, [i \in 1 .. MaxBlockId + 1 |-> i - 1]).blocks
    /\ lspQuery \in BOOLEAN
    /\ forwardsTopoSort = ByFwdId(blocks)
    /\ basicBlocks = [i \in 1 .. MaxBlockId + 1 |-> i - 1]
    /\ minLoops = <<>> /\ maxLoopWrite = <<>>
    /\ rnw = EmptyRnW
    /\ erased = {}
    /\ pc = "findAllReadsAndWrites" /\ it = 1 /\ changed = FALSE /\ lastRule = "none" /\ tick = 0
    /\ run = 1 /\ snapshot = <<>>
    /\ topo = IdleTopo
    /\ aliases = NoAliases

SpecLoops == InitLoops /\ [][NextPasses]_vars

----------------------------------------------------------------------------
(* maybeDealias and CFGBuilder::dealias. *)

isSyntheticTemporary(v) == v \in {"t", "u"}

\* An alias map is a function from the variables it has a key for.
NoAlias == [k \in {} |-> k]

Restricted(map, keys) == [k \in keys |-> map[k]]

\* maybeDealias without the test for a synthetic temporary.
maybeDealiasAny(what, map) ==
    IF what \in DOMAIN map THEN map[what] ELSE what

maybeDealias(what, map) ==
    IF isSyntheticTemporary(what)
    THEN (IF what \in DOMAIN map THEN map[what] ELSE what)
    ELSE what

\* The merge that keeps the map of the first predecessor whatever the others hold.
AgreeingWithFirst(current, other) == current

\* The loop over current that keeps (k -> v) only if other maps k to v too.
Agreeing(current, other) ==
    Restricted(current, {k \in DOMAIN current : k \in DOMAIN other /\ other[k] = current[k]})

\* An invalidation that drops every entry at every binding.
InvalidatedAll(current, bound) == NoAlias

\* invalidate a stale record: drop the entries whose value is the bound variable.
Invalidated(current, bound) ==
    Restricted(current, {k \in DOMAIN current : current[k] # bound})

\* The instructions whose operands dealias rewrites.
Dealiased == {"Ident", "Send", "TAbsurd", "Return"}

\* The body of the loop that records the operand of an Ident as it was written,
\* not as it was resolved.
DealiasBindingUnresolved(bind, current) ==
    LET valid == Invalidated(current, bind.bind)
        late == IF ~bind.synth /\ bind.kind \in Dealiased
                THEN [bind EXCEPT !.ops = [i \in 1 .. Len(bind.ops) |-> maybeDealias(bind.ops[i], valid)]]
                ELSE bind
    IN  [bind |-> late,
         current |-> IF bind.kind = "Ident"
                     THEN [k \in DOMAIN valid \cup {bind.bind} |->
                              IF k = bind.bind THEN bind.ops[1] ELSE valid[k]]
                     ELSE valid,
         crashed |-> bind.kind = "null"]

\* The body of the loop over the bindings of a block, for one binding:
\* [bind, current] after it. On a moved-from binding, whose value is null,
\* bind.value->isSynthetic (line 195) dereferences a null pointer and the
\* process ends there: crashed, with the map as the invalidation left it.
DealiasBinding(bind, current) ==
    LET early == IF bind.kind = "Ident"
                 THEN [bind EXCEPT !.ops = <<maybeDealias(bind.ops[1], current)>>]
                 ELSE bind
        valid == Invalidated(current, bind.bind)
        late == IF ~early.synth /\ early.kind \in Dealiased
                THEN [early EXCEPT !.ops = [i \in 1 .. Len(early.ops) |-> maybeDealias(early.ops[i], valid)]]
                ELSE early
    IN  [bind |-> late,
         current |-> IF late.kind = "Ident"
                     THEN [k \in DOMAIN valid \cup {late.bind} |->
                              IF k = late.bind THEN late.ops[1] ELSE valid[k]]
                     ELSE valid,
         crashed |-> bind.kind = "null"]

\* The loop over the bindings from position i on; acc is [exprs, current,
\* crashed], and nothing runs after a crash.
RECURSIVE DealiasExprs(_, _)
DealiasExprs(i, acc) ==
    IF i > Len(acc.exprs) \/ acc.crashed THEN acc
    ELSE LET r == DealiasBinding(acc.exprs[i], acc.current)
         IN  DealiasExprs(i + 1, [exprs |-> [acc.exprs EXCEPT ![i] = r.bind],
                                  current |-> r.current, crashed |-> r.crashed])

\* The loop over bb->backEdges from position i on: other is a copy of the
\* parent's out map, which for bb itself is current.
RECURSIVE AgreedWithParents(_, _, _, _)
AgreedWithParents(st, bb, i, current) ==
    IF i > Len(st.bs[bb].backEdges) THEN current
    ELSE LET parent == st.bs[bb].backEdges[i]
             other == IF parent = bb THEN current ELSE st.out[parent]
         IN  AgreedWithParents(st, bb, i + 1, Agreeing(current, other))

\* One iteration of the loop over forwardsTopoSort; st is [bs, in, out, crashed].
DealiasBlock(st, bb) ==
    IF bb = deadBlock \/ st.crashed THEN st
    ELSE LET first == IF st.bs[bb].backEdges # <<>>
                      THEN st.out[st.bs[bb].backEdges[1]]
                      ELSE st.out[bb]
             start == AgreedWithParents(st, bb, 1, first)
             done == DealiasExprs(1, [exprs |-> st.bs[bb].exprs, current |-> start,
                                      crashed |-> FALSE])
             cond == IF st.bs[bb].cond # unconditional /\ ~done.crashed
                     THEN maybeDealias(st.bs[bb].cond, done.current)
                     ELSE st.bs[bb].cond
         IN  [bs |-> [st.bs EXCEPT ![bb].exprs = done.exprs, ![bb].cond = cond],
              in |-> [st.in EXCEPT ![bb] = start],
              out |-> [st.out EXCEPT ![bb] = done.current],
              crashed |-> done.crashed]

RECURSIVE DealiasFrom(_, _, _)
DealiasFrom(st, order, i) ==
    IF i > Len(order) THEN st
    ELSE DealiasFrom(DealiasBlock(st, order[i]), order, i + 1)

\* dealias(ctx, cfg): [bs, in, out, crashed], with outAliases one empty map per
\* id; crashed when the process ended at a moved-from binding.
dealias(bs, fts) ==
    DealiasFrom([bs |-> bs, in |-> [b \in DOMAIN bs |-> NoAlias], out |-> [b \in DOMAIN bs |-> NoAlias],
                 crashed |-> FALSE],
                Reverse(fts), 1)

----------------------------------------------------------------------------
(* dealias on CFGs of five blocks. *)

\* snapshot keeps the blocks as they were before the call.
Dealias ==
    /\ pc = "dealias"
    /\ snapshot' = blocks
    /\ \E r \in {dealias(blocks, forwardsTopoSort)} :
           /\ blocks' = r.bs
           /\ aliases' = [in |-> r.in, out |-> r.out]
           /\ pc' = IF r.crashed THEN "crashed" ELSE "dealiased"
    /\ UNCHANGED <<basicBlocks, forwardsTopoSort, minLoops, maxLoopWrite, rnw, erased,
                   it, changed, lastRule, tick, run, topo, lspQuery>>

\* dealias called again on its own result.
DealiasAgain ==
    /\ pc = "dealiased" /\ run = 1
    /\ run' = 2
    /\ snapshot' = blocks
    /\ \E r \in {dealias(blocks, forwardsTopoSort)} :
           /\ blocks' = r.bs
           /\ aliases' = [in |-> r.in, out |-> r.out]
           /\ pc' = IF r.crashed THEN "crashed" ELSE pc
    /\ UNCHANGED <<basicBlocks, forwardsTopoSort, minLoops, maxLoopWrite, rnw, erased,
                   it, changed, lastRule, tick, topo, lspQuery>>

SynthInstr(bind, kind, ops) == [bind |-> bind, kind |-> kind, ops |-> ops, synth |-> TRUE]

\* The instruction sequences a block of these CFGs holds.
DealiasMenu ==
    << <<>>,
       <<Instr("t", "Ident", <<"x">>)>>,
       <<Instr("t", "Ident", <<"y">>)>>,
       <<Instr("u", "Ident", <<"t">>)>>,
       <<Instr("y", "Send", <<"u", "t">>)>>,
       <<Instr("t", "Ident", <<"x">>), Instr("u", "Ident", <<"t">>), Instr("y", "Send", <<"u", "t">>)>>,
       <<Instr("x", "Literal", <<>>)>>,
       <<Instr("t", "Ident", <<"x">>), Instr("u", "Ident", <<"t">>),
         Instr("y", "Return", <<"t">>), Instr("y", "TAbsurd", <<"u">>)>>,
       <<SynthInstr("y", "Send", <<"t">>), SynthInstr("u", "Ident", <<"t">>)>>,
       <<Instr("y", "Ident", <<"x">>), Instr("t", "Send", <<"y", "y">>)>> >>

DealiasIds == BlockIds \cup {MaxBlockId + 1}

DealiasLive == DealiasIds \ {deadBlock}

\* The shapes of these CFGs: a straight line, a diamond, a loop of two blocks
\* and a block that jumps to itself, once with an id above its other
\* predecessor's (back edges [0, 2]) and once with an id below it (back edges
\* [2, 3], the block first among its own back edges); a branching block
\* branches on cond.
Straight(b) == <<b, b>>

DealiasShapes ==
    { [exits |-> (0 :> Straight(2) @@ 2 :> Straight(3) @@ 3 :> Straight(4) @@ 4 :> Straight(deadBlock)),
       cond |-> "x"],
      [exits |-> (0 :> <<2, 3>> @@ 2 :> Straight(4) @@ 3 :> Straight(4) @@ 4 :> Straight(deadBlock)),
       cond |-> "t"],
      [exits |-> (0 :> Straight(2) @@ 2 :> <<3, 4>> @@ 3 :> Straight(2) @@ 4 :> Straight(deadBlock)),
       cond |-> "x"],
      [exits |-> (0 :> Straight(2) @@ 2 :> <<2, 3>> @@ 3 :> Straight(4) @@ 4 :> Straight(deadBlock)),
       cond |-> "u"],
      [exits |-> (0 :> Straight(3) @@ 3 :> Straight(2) @@ 2 :> <<2, 4>> @@ 4 :> Straight(deadBlock)),
       cond |-> "t"] }

\* The ids of S in ascending order.
Ascending(S) ==
    [i \in 1 .. Cardinality(S) |-> CHOOSE x \in S : Cardinality({y \in S : y < x}) = i - 1]

\* The CFG of a shape whose block b holds DealiasMenu[ex[b]], back edges as
\* simplify leaves them.
DealiasInput(shape, ex) ==
    [b \in DealiasIds |->
        IF b = deadBlock
        THEN [DeadBlockRecord EXCEPT
                 !.backEdges = Ascending({p \in DealiasLive : deadBlock \in Range(shape.exits[p])})]
        ELSE [thenb |-> shape.exits[b][1], elseb |-> shape.exits[b][2],
              cond |-> IF shape.exits[b][1] = shape.exits[b][2] THEN unconditional ELSE shape.cond,
              rubyBlockId |-> 0,
              outerLoops |-> 0,
              exprs |-> DealiasMenu[ex[b]],
              backEdges |-> Ascending({p \in DealiasLive : b \in Range(shape.exits[p])}),
              flags |-> {},
              args |-> <<>>, fwdId |-> -1]]

InitDealias ==
    /\ \E shape \in DealiasShapes, ex \in [DealiasLive -> 1 .. Len(DealiasMenu)] :
          \E input \in {DealiasInput(shape, ex)} :
              blocks = TopoSorted(input, Ascending(DealiasIds)).blocks
    /\ forwardsTopoSort = ByFwdId(blocks)
    /\ basicBlocks = Ascending(DealiasIds)
    /\ minLoops = <<>> /\ maxLoopWrite = <<>>
    /\ rnw = EmptyRnW
    /\ erased = {}
    /\ pc = "dealias" /\ it = 1 /\ changed = FALSE /\ lastRule = "none" /\ tick = 0
    /\ run = 1 /\ snapshot = <<>>
    /\ topo = IdleTopo
    /\ aliases = NoAliases
    /\ lspQuery = FALSE

NextDealias ==
    \/ Dealias
    \/ DealiasAgain

SpecDealias == InitDealias /\ [][NextDealias]_vars

----------------------------------------------------------------------------
(* CFGBuilder::markLoopHeaders, and the passes called one after another. *)

\* markLoopHeaders with the comparison of the loop depths turned around.
markLoopHeadersOnExit(bs, bbs) ==
    [b \in DOMAIN bs |->
        IF /\ b \in Range(bbs)
           /\ \E i \in 1 .. Len(bs[b].backEdges) :
                 bs[bs[b].backEdges[i]].outerLoops > bs[b].outerLoops
        THEN [bs[b] EXCEPT !.flags = @ \cup {LOOP_HEADER}]
        ELSE bs[b]]

markLoopHeaders(bs, bbs) ==
    [b \in DOMAIN bs |->
        IF /\ b \in Range(bbs)
           /\ \E i \in 1 .. Len(bs[b].backEdges) :
                 bs[bs[b].backEdges[i]].outerLoops < bs[b].outerLoops
        THEN [bs[b] EXCEPT !.flags = @ \cup {LOOP_HEADER}]
        ELSE bs[b]]

\* The CFG: what the passes may write.
Cfg == [blocks |-> blocks, basicBlocks |-> basicBlocks, forwardsTopoSort |-> forwardsTopoSort,
        minLoops |-> minLoops, maxLoopWrite |-> maxLoopWrite]

\* simplify has returned to the builder, which sorts the blocks next.
SimplifyReturn ==
    /\ pc = "returned"
    /\ pc' = "topoSortFwd"
    /\ lastRule' = "simplify"
    /\ UNCHANGED <<blocks, basicBlocks, forwardsTopoSort, minLoops, maxLoopWrite, rnw,
                   erased, it, changed, tick, run, snapshot, topo, lspQuery, aliases>>

\* The passes below are called on the sorted CFG, in any order, MaxCalls
\* times in all: run numbers the next call, lastRule names the pass called
\* last, and after computeMinMaxLoops snapshot keeps the CFG as it was before
\* the call.
MaxCalls == 5

Callable == pc = "sorted" /\ run <= MaxCalls

CallDealias ==
    /\ Callable /\ run' = run + 1
    /\ snapshot' = <<>> /\ lastRule' = "dealias"
    /\ \E r \in {dealias(blocks, forwardsTopoSort)} :
           /\ blocks' = r.bs
           /\ aliases' = [in |-> r.in, out |-> r.out]
           /\ pc' = IF r.crashed THEN "crashed" ELSE pc
    /\ UNCHANGED <<basicBlocks, forwardsTopoSort, minLoops, maxLoopWrite, rnw, erased,
                   it, changed, tick, topo, lspQuery>>

CallMarkLoopHeaders ==
    /\ Callable /\ run' = run + 1
    /\ snapshot' = <<>> /\ lastRule' = "markLoopHeaders"
    /\ blocks' = markLoopHeaders(blocks, basicBlocks)
    /\ UNCHANGED <<basicBlocks, forwardsTopoSort, minLoops, maxLoopWrite, rnw, erased,
                   pc, it, changed, tick, topo, lspQuery, aliases>>

CallFindAllReadsAndWrites ==
    /\ Callable /\ run' = run + 1
    /\ snapshot' = <<>> /\ lastRule' = "findAllReadsAndWrites"
    /\ rnw' = findAllReadsAndWrites(blocks, basicBlocks)
    /\ UNCHANGED <<blocks, basicBlocks, forwardsTopoSort, minLoops, maxLoopWrite, erased,
                   pc, it, changed, tick, topo, lspQuery, aliases>>

CallRemoveDeadAssigns ==
    /\ Callable /\ run' = run + 1
    /\ snapshot' = <<>> /\ lastRule' = "removeDeadAssigns"
    /\ blocks' = removeDeadAssigns(blocks, basicBlocks, rnw, lspQuery)
    /\ UNCHANGED <<basicBlocks, forwardsTopoSort, minLoops, maxLoopWrite, rnw, erased,
                   pc, it, changed, tick, topo, lspQuery, aliases>>

CallComputeMinMaxLoops ==
    /\ Callable /\ run' = run + 1
    /\ snapshot' = Cfg /\ lastRule' = "computeMinMaxLoops"
    /\ \E r \in {computeMinMaxLoops(blocks, basicBlocks, rnw, minLoops, maxLoopWrite)} :
           minLoops' = r.minLoops /\ maxLoopWrite' = r.maxLoopWrite
    /\ UNCHANGED <<blocks, basicBlocks, forwardsTopoSort, rnw, erased,
                   pc, it, changed, tick, topo, lspQuery, aliases>>

CallFillInBlockArguments ==
    /\ Callable /\ run' = run + 1
    /\ snapshot' = <<>> /\ lastRule' = "fillInBlockArguments"
    /\ LET looked == UNION {rnw.dead[b] : b \in Range(forwardsTopoSort)}
       IN  /\ \E u1 \in {upperBounds1(PassContext)}, u2 \in {upperBounds2(PassContext)} :
                 \E hashOrder \in HashOrders(UNION {u1[b] : b \in BlockIds}) :
                     blocks' = [b \in BlockIds |->
                                   IF b \in Range(basicBlocks)
                                   THEN [blocks[b] EXCEPT !.args = FilledArgs(@, u1[b], u2[b], hashOrder)]
                                   ELSE blocks[b]]
           /\ minLoops' = [v \in DOMAIN minLoops \cup looked |-> MinLoopsAt(minLoops, v)]
    /\ UNCHANGED <<basicBlocks, forwardsTopoSort, maxLoopWrite, rnw, erased,
                   pc, it, changed, tick, topo, lspQuery, aliases>>

\* The instruction sequences a block of these CFGs holds.
PipelineMenu ==
    << <<Instr("x", "Literal", <<>>), Instr("t", "Ident", <<"x">>)>>,
       <<Instr("y", "Send", <<"t", "x">>)>>,
       <<Instr("y", "Literal", <<>>), Instr("g", "Literal", <<>>)>>,
       <<Instr("x", "Send", <<"x", "y">>)>> >>

\* The instruction sequences of the blocks 0, 2 and 3, by their place in
\* PipelineMenu; 0 is a block without instructions.
PipelineExprs ==
    { (0 :> e[1] @@ 2 :> e[2] @@ 3 :> e[3]) :
        e \in { <<1, 2, 3>>, <<1, 2, 0>>, <<3, 1, 2>>, <<0, 4, 1>>, <<4, 3, 2>>, <<2, 0, 1>>,
                <<1, 1, 2>>, <<3, 3, 3>>, <<1, 4, 2>>, <<0, 0, 0>>, <<2, 3, 4>>, <<4, 2, 1>> } }

\* The shapes of these CFGs, with the loop depth of their inner blocks: a
\* straight line, a line through a loop, a loop, a branch and a CFG with a
\* block that nothing jumps to.
PipelineShapes ==
    { [exits |-> (0 :> <<2, 2>> @@ 2 :> <<3, 3>> @@ 3 :> <<deadBlock, deadBlock>>),
       depth |-> (2 :> 0 @@ 3 :> 0)],
      [exits |-> (0 :> <<2, 2>> @@ 2 :> <<3, 3>> @@ 3 :> <<deadBlock, deadBlock>>),
       depth |-> (2 :> 1 @@ 3 :> 0)],
      [exits |-> (0 :> <<2, 2>> @@ 2 :> <<3, deadBlock>> @@ 3 :> <<2, 2>>),
       depth |-> (2 :> 1 @@ 3 :> 1)],
      [exits |-> (0 :> <<2, 3>> @@ 2 :> <<3, 3>> @@ 3 :> <<deadBlock, deadBlock>>),
       depth |-> (2 :> 0 @@ 3 :> 0)],
      [exits |-> (0 :> <<3, 3>> @@ 2 :> <<3, 3>> @@ 3 :> <<deadBlock, deadBlock>>),
       depth |-> (2 :> 0 @@ 3 :> 0)] }

\* The CFG as the builder hands it to simplify: back edges as recorded, no
\* block numbered.
PipelineInput(shape, ex) ==
    WithBackEdges(
        [b \in BlockIds |->
            IF b = deadBlock THEN DeadBlockRecord
            ELSE [thenb |-> shape.exits[b][1], elseb |-> shape.exits[b][2],
                  cond |-> "x",
                  rubyBlockId |-> 0,
                  outerLoops |-> IF b = entry THEN 0 ELSE shape.depth[b],
                  exprs |-> IF ex[b] = 0 THEN NoBinding ELSE PipelineMenu[ex[b]],
                  backEdges |-> <<>>,
                  flags |-> {WAS_JUMP_DESTINATION},
                  args |-> <<>>, fwdId |-> -1]])

InitPipeline ==
    /\ \E shape \in PipelineShapes, ex \in PipelineExprs :
          blocks = PipelineInput(shape, ex)
    /\ lspQuery \in BOOLEAN
    /\ basicBlocks = [i \in 1 .. MaxBlockId + 1 |-> i - 1]
    /\ forwardsTopoSort = <<>>
    /\ minLoops = <<>> /\ maxLoopWrite = <<>>
    /\ rnw = EmptyRnW
    /\ erased = {}
    /\ pc = "start" /\ it = 1 /\ changed = FALSE /\ lastRule = "none" /\ tick = 0
    /\ run = 1 /\ snapshot = <<>>
    /\ topo = IdleTopo
    /\ aliases = NoAliases

NextPipeline ==
    \/ SimplifyBegin
    \/ SimplifyRemove
    \/ SimplifyFuse
    \/ SimplifyCollapse
    \/ SimplifyShortcutThen
    \/ SimplifyShortcutElse
    \/ SimplifyAdvance
    \/ SimplifySweepEnd
    \/ SimplifyReturn
    \/ TopoSortFwd
    \/ CallDealias
    \/ CallMarkLoopHeaders
    \/ CallFindAllReadsAndWrites
    \/ CallRemoveDeadAssigns
    \/ CallComputeMinMaxLoops
    \/ CallFillInBlockArguments

SpecPipeline == InitPipeline /\ [][NextPipeline]_vars

----------------------------------------------------------------------------
(* Properties of simplify. *)

Returned == pc = "returned" /\ run = 1

\* C1: when simplify returns, edges and back edges agree exactly: every
\* remaining block other than deadBlock is exactly once in the backEdges of
\* each of its successors, and every back edge P of a remaining block B is a
\* block that jumps to B.
C1_EdgesAgree ==
    Returned =>
        /\ \A b \in Range(basicBlocks) \ {deadBlock} :
               /\ Count(blocks[blocks[b].thenb].backEdges, b) = 1
               /\ Count(blocks[blocks[b].elseb].backEdges, b) = 1
        /\ \A b \in Range(basicBlocks) : \A p \in Range(blocks[b].backEdges) :
               blocks[p].thenb = b \/ blocks[p].elseb = b

\* C4: after simplify returns every remaining block other than entry and
\* deadBlock has a back edge, and no erased block is referenced: not as a back
\* edge, not as thenb or elseb of a remaining block, not in forwardsTopoSort.
C4_NoDanglingBlock ==
    Returned =>
        /\ \A b \in Range(basicBlocks) \ {entry, deadBlock} : blocks[b].backEdges # <<>>
        /\ \A b \in Range(basicBlocks) :
               /\ Range(blocks[b].backEdges) \cap erased = {}
               /\ blocks[b].thenb \notin erased
               /\ blocks[b].elseb \notin erased
        /\ Range(forwardsTopoSort) \cap erased = {}

\* C5: the sanity predicate holds at every sanityCheck call that follows a rule
\* application.
C5_SanityAfterEveryRule ==
    (pc = "loop" /\ lastRule # "none") => SanityCheck(blocks, basicBlocks)

\* C3: simplify called again on its own result changes nothing.
C3_Idempotent ==
    (pc = "returned" /\ run = 2) => Observed = snapshot

\* C2: simplify terminates: from every input the sweep loop reaches a sweep in
\* which no rule fires, and simplify returns.
C2_Terminates == <>(pc = "returned")

----------------------------------------------------------------------------
(* Properties of topoSortFwd. *)

Succs(b) == {blocks[b].thenb, blocks[b].elseb}

\* The blocks reachable from b along thenb and elseb, b included.
RECURSIVE ReachFrom(_)
ReachFrom(seen) ==
    LET more == seen \cup UNION {Succs(b) : b \in seen}
    IN  IF more = seen THEN seen ELSE ReachFrom(more)

Reachable(b) == ReachFrom({b})

\* The index of block b in the target vector (0-based, as the code numbers it).
TargetIndex(b) == (CHOOSE i \in 1 .. topo.nextFree : topo.target[i] = b) - 1

\* The edges between reachable blocks that are not DFS back edges.
ForwardEdges ==
    {e \in Reachable(entry) \X Reachable(entry) :
        e[2] \in Succs(e[1]) /\ e \notin topo.inProgress}

\* C7 as claimed: along every edge B -> S that is no DFS back edge, B comes
\* before S in forwardsTopoSort.
C7_PredecessorsFirst ==
    pc = "sorted" => \A e \in ForwardEdges : TargetIndex(e[1]) < TargetIndex(e[2])

\* C7 as amended: topoSortFwd writes a post-order; along every edge B -> S that
\* is no DFS back edge, S comes before B in forwardsTopoSort, so entry is last.
C7_SuccessorsFirst ==
    pc = "sorted" =>
        /\ \A e \in ForwardEdges : TargetIndex(e[2]) < TargetIndex(e[1])
        /\ forwardsTopoSort[Len(forwardsTopoSort)] = entry

\* entry -> block 2 -> deadBlock, sorted as <<deadBlock, 2, entry>>.
C7_Witness ==
    /\ pc = "sorted"
    /\ blocks[entry].thenb = 2 /\ blocks[entry].elseb = 2
    /\ blocks[2].thenb = deadBlock /\ blocks[2].elseb = deadBlock
    /\ forwardsTopoSort = <<deadBlock, 2, entry>>

\* C8: topoSortFwd from entry returns the number N of reachable blocks,
\* target[0..N-1] holds every reachable block exactly once, every such block's
\* fwdId is its index, and no block is left in progress (-2); the blocks not
\* reached stay unnumbered.
C8_NumbersReachableOnce ==
    pc = "sorted" =>
        /\ topo.nextFree = Cardinality(Reachable(entry))
        /\ {topo.target[i] : i \in 1 .. topo.nextFree} = Reachable(entry)
        /\ \A i \in 1 .. topo.nextFree : blocks[topo.target[i]].fwdId = i - 1
        /\ \A b \in BlockIds : blocks[b].fwdId # -2
        /\ \A b \in BlockIds \ Reachable(entry) : blocks[b].fwdId = -1

\* A cyclic CFG in which every block is reachable has been numbered.
C8_Witness ==
    /\ pc = "sorted"
    /\ topo.nextFree = Cardinality(BlockIds)
    /\ topo.inProgress # {}
    /\ \E b \in InnerIds : entry \in Succs(b)

----------------------------------------------------------------------------
(* Properties of the passes. *)

AfterRemoveDeadAssigns == pc = "computeMinMaxLoops"

AfterFillInBlockArguments == pc = "done"

\* The blocks on whose entry v is awaited: v is read there before it is bound,
\* or the block does not bind v and v is awaited on entry of a successor.
RECURSIVE AwaitedFrom(_, _)
AwaitedFrom(v, seen) ==
    LET more == seen \cup
                {b \in BlockIds :
                    \/ v \in ReadsOf(blocks[b]) \ DeadOf(blocks[b])
                    \/ v \notin Binds(blocks[b]) /\ Succs(b) \cap seen # {}}
    IN  IF more = seen THEN seen ELSE AwaitedFrom(v, more)

Awaited(v) == AwaitedFrom(v, {})

\* The blocks that bound v before removeDeadAssigns and do not bind it after.
ErasedFrom(v) ==
    {B \in Range(basicBlocks) : v \in Binds(snapshot[B]) /\ v \notin Binds(blocks[B])}

C9_ArgsSorted ==
    AfterFillInBlockArguments =>
        \A b \in Range(basicBlocks) :
            \A i \in 1 .. Len(blocks[b].args) - 1 :
                VarRank(blocks[b].args[i]) < VarRank(blocks[b].args[i + 1])

\* Some block has received two arguments.
C9_Witness ==
    /\ AfterFillInBlockArguments
    /\ \E b \in Range(basicBlocks) : Len(blocks[b].args) >= 2

\* The blocks reachable from b by at least one edge.
ReachableByEdge(b) == UNION {Reachable(s) : s \in Succs(b)}

\* C10: after fillInBlockArguments the args of block B are exactly the
\* variables in both upper bounds; each of them is read by a block reachable
\* from B (B included) and written by a block other than deadBlock from which B
\* is reachable by at least one edge; an entry without predecessors and
\* deadBlock have no args.
C10_ArgsAreIntersection ==
    AfterFillInBlockArguments =>
        \A B \in Range(basicBlocks), u1 \in {upperBounds1(PassContext)}, u2 \in {upperBounds2(PassContext)} :
            /\ Range(blocks[B].args) = u1[B] \cap u2[B]
            /\ \A v \in Range(blocks[B].args) :
                  /\ \E S \in Reachable(B) : v \in rnw.reads[S]
                  /\ \E P \in BlockIds \ {deadBlock} :
                        v \in rnw.writes[P] /\ B \in ReachableByEdge(P)
            /\ (B = entry /\ blocks[B].backEdges = <<>>) => blocks[B].args = <<>>
            /\ B = deadBlock => blocks[B].args = <<>>

\* A block between a writer and a reader has received an argument, entry has
\* no predecessor, and deadBlock has one that writes.
C10_Witness ==
    /\ AfterFillInBlockArguments
    /\ blocks[entry].backEdges = <<>>
    /\ \E B \in InnerIds : blocks[B].args # <<>>
    /\ \E P \in Range(blocks[deadBlock].backEdges) : rnw.writes[P] # {}

----------------------------------------------------------------------------
(* Properties of dealias. *)

AfterDealias == pc = "dealiased" /\ run = 1

\* The operand positions of block b: <<i, j>> is operand j of binding i.
Operands(bs, b) ==
    {<<i, j>> \in (1 .. Len(bs[b].exprs)) \X (1 .. 2) : j <= Len(bs[b].exprs[i].ops)}

\* dealias keeps the instructions of every block and changes operands and
\* branch conditions only.
SameButOperands(before, after) ==
    \A b \in DOMAIN before :
        /\ [after[b] EXCEPT !.exprs = before[b].exprs, !.cond = before[b].cond] = before[b]
        /\ Len(after[b].exprs) = Len(before[b].exprs)
        /\ \A i \in 1 .. Len(before[b].exprs) :
               [after[b].exprs[i] EXCEPT !.ops = before[b].exprs[i].ops] = before[b].exprs[i]
                  /\ Len(after[b].exprs[i].ops) = Len(before[b].exprs[i].ops)

\* C11: dealias never rewrites a named source variable: every operand and
\* every branch condition that a call of dealias changed was a synthetic
\* temporary before the call, so an operand that is not a synthetic temporary
\* is left as it is whatever the alias map contains.
C11_NamedOperandsKept ==
    pc = "dealiased" =>
        /\ SameButOperands(snapshot, blocks)
        /\ \A b \in DOMAIN blocks :
               /\ blocks[b].cond # snapshot[b].cond => isSyntheticTemporary(snapshot[b].cond)
               /\ \A o \in Operands(snapshot, b) :
                      blocks[b].exprs[o[1]].ops[o[2]] # snapshot[b].exprs[o[1]].ops[o[2]]
                         => isSyntheticTemporary(snapshot[b].exprs[o[1]].ops[o[2]])

\* A named operand that the alias map of its block maps to another variable,
\* in a CFG where dealias rewrote a temporary.
C11_Witness ==
    /\ AfterDealias
    /\ \E b \in DealiasLive : \E o \in Operands(snapshot, b) :
          LET v == snapshot[b].exprs[o[1]].ops[o[2]]
          IN  /\ ~isSyntheticTemporary(v)
              /\ v \in DOMAIN aliases.out[b]
              /\ aliases.out[b][v] # v
              /\ blocks[b].exprs[o[1]].ops[o[2]] = v
    /\ \E b \in DealiasLive : \E o \in Operands(snapshot, b) :
          blocks[b].exprs[o[1]].ops[o[2]] # snapshot[b].exprs[o[1]].ops[o[2]]
    /\ \E b \in DealiasLive : blocks[b].cond # snapshot[b].cond

\* The alias map m contains (k -> v).
Contains(m, k, v) == k \in DOMAIN m /\ m[k] = v

Parents(b) == Range(blocks[b].backEdges)

\* The walk of dealias visits p before b.
VisitedBefore(p, b) ==
    \E i, j \in 1 .. Len(forwardsTopoSort) :
        /\ forwardsTopoSort[i] = p /\ forwardsTopoSort[j] = b
        /\ i > j

\* C12 as stated: at a join, the alias map used at the start of block B
\* contains (k -> v) if and only if the out-alias map of every block in
\* B.backEdges contains (k -> v).
C12_InIsIntersection ==
    AfterDealias =>
        \A B \in DealiasLive : Parents(B) # {} =>
            \A k \in Range(Variables), v \in Range(Variables) :
                Contains(aliases.in[B], k, v)
                    <=> \A P \in Parents(B) : Contains(aliases.out[P], k, v)

\* The first binding of B uses t and dealias left that use as it was.
FirstUseKept(B, t) ==
    /\ snapshot[B].exprs # <<>>
    /\ t \in Range(snapshot[B].exprs[1].ops)
    /\ \A j \in 1 .. Len(snapshot[B].exprs[1].ops) :
           snapshot[B].exprs[1].ops[j] = t => blocks[B].exprs[1].ops[j] = t

\* B is the first of its own back edges: line 162 then assigns the still empty
\* out map of B to itself, and every merge starts from the empty map.
FirstOfItsOwn(B) ==
    blocks[B].backEdges # <<>> /\ blocks[B].backEdges[1] = B

\* C12: at a join, the alias map used at the start of block B contains
\* (k -> v) if and only if B is not the first of its own back edges and every
\* predecessor of B other than B itself was visited before B and its out-alias
\* map contains (k -> v); a predecessor that the walk has not visited yet (the
\* back edge of a loop) drops every entry, and so does B itself when it is
\* backEdges[0] of B.  Hence in a diamond where one arm has t := Ident(a) and
\* the other t := Ident(b) with a # b, a use of t in the join block is not
\* rewritten.
C12_InIsIntersectionOfVisited ==
    AfterDealias =>
        \A B \in DealiasLive : Parents(B) \ {B} # {} =>
            /\ \A k \in Range(Variables), v \in Range(Variables) :
                   Contains(aliases.in[B], k, v)
                       <=> /\ ~FirstOfItsOwn(B)
                           /\ \A P \in Parents(B) \ {B} :
                                  VisitedBefore(P, B) /\ Contains(aliases.out[P], k, v)
            /\ \A t \in Range(Variables) :
                   (/\ snapshot[B].exprs # <<>>
                    /\ t \in Range(snapshot[B].exprs[1].ops)
                    /\ \E P, Q \in Parents(B) :
                          /\ t \in DOMAIN aliases.out[P] /\ t \in DOMAIN aliases.out[Q]
                          /\ aliases.out[P][t] # aliases.out[Q][t])
                       => FirstUseKept(B, t)

\* The diamond whose arms bind t to different variables and whose join uses t.
C12_Witness ==
    /\ AfterDealias
    /\ \E B \in DealiasLive :
          /\ Cardinality(Parents(B)) = 2
          /\ \E P, Q \in Parents(B) :
                Contains(aliases.out[P], "t", "x") /\ Contains(aliases.out[Q], "t", "y")
          /\ FirstUseKept(B, "t")

\* A join whose arms agree on an alias of t, which rewrites the use of t.
C12_AgreedAliasUsed ==
    /\ AfterDealias
    /\ \E B \in DealiasLive :
          /\ Cardinality(Parents(B)) = 2
          /\ Contains(aliases.in[B], "t", "x")
          /\ \A P \in Parents(B) : Contains(aliases.out[P], "t", "x")
          /\ \E o \in Operands(snapshot, B) :
                /\ snapshot[B].exprs[o[1]].ops[o[2]] = "t"
                /\ blocks[B].exprs[o[1]].ops[o[2]] = "x"

\* A block that is the first of its own back edges starts from the empty map
\* although its other predecessor was visited and holds an alias of t.
C12_SelfFirstDropsAll ==
    /\ AfterDealias
    /\ \E B \in DealiasLive :
          /\ FirstOfItsOwn(B)
          /\ aliases.in[B] = NoAlias
          /\ \E P \in Parents(B) \ {B} :
                VisitedBefore(P, B) /\ Contains(aliases.out[P], "t", "x")

\* A block that jumps to itself and is not the first of its own back edges
\* keeps what its other predecessor holds.
C12_SelfLaterKeeps ==
    /\ AfterDealias
    /\ \E B \in DealiasLive :
          /\ B \in Parents(B) /\ ~FirstOfItsOwn(B)
          /\ Contains(aliases.in[B], "t", "x")

AfterDealiasAgain == pc = "dealiased" /\ run = 2

\* C13: dealias is idempotent: a second call of dealias on the CFG that
\* dealias produced changes no instruction operand and no branch condition.
C13_DealiasIdempotent ==
    AfterDealiasAgain => blocks = snapshot

\* A second call on a CFG in which the first call resolved both operands of
\* a Send to x.
C13_Witness ==
    /\ AfterDealiasAgain
    /\ \E b \in DealiasLive :
          /\ aliases.out[b] # NoAlias
          /\ \E i \in 1 .. Len(blocks[b].exprs) :
                blocks[b].exprs[i] = Instr("y", "Send", <<"x", "x">>)

\* Bindings i and i + 1 of block b were t1 := Ident(x); t2 := Ident(t1) with
\* t1 and t2 two synthetic temporaries and x a named variable.
ChainAt(b, i) ==
    /\ i + 1 <= Len(snapshot[b].exprs)
    /\ LET first == snapshot[b].exprs[i]
           second == snapshot[b].exprs[i + 1]
       IN  /\ first.kind = "Ident" /\ second.kind = "Ident"
           /\ isSyntheticTemporary(first.bind) /\ isSyntheticTemporary(second.bind)
           /\ first.bind # second.bind
           /\ ~isSyntheticTemporary(first.ops[1])
           /\ second.ops = <<first.bind>>

\* The bindings of block b from position i to position k bind neither of vs.
NotBound(b, i, k, vs) ==
    \A j \in i .. k : snapshot[b].exprs[j].bind \notin vs

\* C19: dealias resolves a chain of identity copies through synthetic
\* temporaries to its root: where a block holds t1 := Ident(x);
\* t2 := Ident(t1) with x a named variable, the second binding becomes
\* t2 := Ident(x), and every operand t1 or t2 of a later Send, Return or
\* TAbsurd of the block that is not marked synthetic, and the branch
\* condition if it was t1 or t2, becomes x, as long as neither x, t1 nor t2
\* is bound again in between.
C19_ChainResolved ==
    AfterDealias =>
        \A b \in DealiasLive : \A i \in 1 .. Len(snapshot[b].exprs) : ChainAt(b, i) =>
            LET x == snapshot[b].exprs[i].ops[1]
                temps == {snapshot[b].exprs[i].bind, snapshot[b].exprs[i + 1].bind}
            IN  /\ blocks[b].exprs[i + 1].ops = <<x>>
                /\ \A k \in i + 2 .. Len(snapshot[b].exprs) :
                       (/\ NotBound(b, i + 2, k, {x})
                        /\ NotBound(b, i + 2, k - 1, temps)
                        /\ snapshot[b].exprs[k].kind \in {"Send", "Return", "TAbsurd"}
                        /\ ~snapshot[b].exprs[k].synth)
                           => \A j \in 1 .. Len(snapshot[b].exprs[k].ops) :
                                 snapshot[b].exprs[k].ops[j] \in temps
                                    => blocks[b].exprs[k].ops[j] = x
                /\ (/\ NotBound(b, i + 2, Len(snapshot[b].exprs), {x} \cup temps)
                    /\ snapshot[b].cond \in temps)
                       => blocks[b].cond = x

\* The chain followed by a Send of both temporaries in a block that branches
\* on one of them, and the chain followed by a Return and a TAbsurd.
C19_Witness ==
    /\ AfterDealias
    /\ \E b \in DealiasLive :
          /\ ChainAt(b, 1)
          /\ snapshot[b].exprs[3] = Instr("y", "Send", <<"u", "t">>)
          /\ blocks[b].exprs[3] = Instr("y", "Send", <<"x", "x">>)
          /\ snapshot[b].cond = "u" /\ blocks[b].cond = "x"
    /\ \E b \in DealiasLive :
          /\ ChainAt(b, 1)
          /\ blocks[b].exprs[3] = Instr("y", "Return", <<"x">>)
          /\ blocks[b].exprs[4] = Instr("y", "TAbsurd", <<"x">>)

----------------------------------------------------------------------------
(* Properties of computeMinMaxLoops. *)

\* computeMinMaxLoops has returned from a call on a CFG whose two maps were empty.
AfterComputeMinMaxLoops ==
    /\ lastRule = "computeMinMaxLoops"
    /\ snapshot.minLoops = <<>> /\ snapshot.maxLoopWrite = <<>>

\* The blocks other than deadBlock that read v, and those that bind v.
Readers(v) == {b \in Range(basicBlocks) \ {deadBlock} : v \in rnw.reads[b]}

Writers(v) == {b \in Range(basicBlocks) \ {deadBlock} : v \in Binds(blocks[b])}

\* n is the least, or the greatest, of the numbers in S.
IsLeast(n, S) == n \in S /\ \A m \in S : n <= m

IsGreatest(n, S) == n \in S /\ \A m \in S : n >= m

\* C18: after computeMinMaxLoops on a CFG whose minLoops and maxLoopWrite
\* were empty, minLoops[v] is defined for the variables that a block other
\* than deadBlock reads or binds and is the least outerLoops of those blocks,
\* maxLoopWrite[v] is defined for the variables such a block binds and is the
\* greatest of 0 and the outerLoops of the blocks that bind v; so
\* minLoops[v] <= maxLoopWrite[v] where both are defined.
C18_MinMaxLoops ==
    AfterComputeMinMaxLoops =>
        /\ DOMAIN minLoops = {v \in Range(Variables) : Readers(v) \cup Writers(v) # {}}
        /\ DOMAIN maxLoopWrite = {v \in Range(Variables) : Writers(v) # {}}
        /\ \A v \in DOMAIN minLoops :
               IsLeast(minLoops[v], {blocks[b].outerLoops : b \in Readers(v) \cup Writers(v)})
        /\ \A v \in DOMAIN maxLoopWrite :
               IsGreatest(maxLoopWrite[v], {0} \cup {blocks[b].outerLoops : b \in Writers(v)})
        /\ \A v \in DOMAIN minLoops \cap DOMAIN maxLoopWrite : minLoops[v] <= maxLoopWrite[v]

\* A variable bound in a shallower block than every block that reads it, next
\* to a variable bound inside a loop and read outside it.
C18_Witness ==
    /\ AfterComputeMinMaxLoops
    /\ \E v \in DOMAIN maxLoopWrite :
          /\ Readers(v) # {}
          /\ \A b \in Readers(v) : blocks[b].outerLoops > minLoops[v]
    /\ \E v \in DOMAIN maxLoopWrite :
          /\ maxLoopWrite[v] > minLoops[v]
          /\ \E b \in Readers(v) : blocks[b].outerLoops = minLoops[v]
    /\ \E v \in DOMAIN minLoops : v \notin DOMAIN maxLoopWrite

----------------------------------------------------------------------------
(* simplify and the scopes of the bindings. *)

\* The block whose input binding binds v.
Origin(v) == CHOOSE b \in BlockIds : BlockVar(b) = v

SameScope(b, o) ==
    /\ blocks[b].rubyBlockId = blocks[o].rubyBlockId
    /\ blocks[b].outerLoops = blocks[o].outerLoops

\* Every binding that has not been moved from sits in a block of the scope of
\* the block it came from.
BindingsInScope ==
    \A b \in Range(basicBlocks) : \A i \in 1 .. Len(blocks[b].exprs) :
        blocks[b].exprs[i].kind # "null" => SameScope(b, Origin(blocks[b].exprs[i].bind))

\* The blocks of the CFG that jump to T.
Predecessors(T) ==
    {p \in Range(basicBlocks) : blocks[p].thenb = T \/ blocks[p].elseb = T}

\* A step that lengthens the bindings of B appends those of T == B.thenb, and
\* only under the conditions of the fusion.
MovesOnlyByFusion ==
    \A B \in BlockIds : Len(blocks'[B].exprs) > Len(blocks[B].exprs) =>
        LET T == blocks[B].thenb
        IN  /\ blocks[B].elseb = T
            /\ T # deadBlock /\ T # B
            /\ Predecessors(T) = {B}
            /\ SameScope(B, T)
            /\ blocks'[B].exprs = blocks[B].exprs \o blocks[T].exprs

\* C16: simplify never fuses across scopes: in every state during simplify
\* each binding sits in a block whose rubyBlockId and outerLoops equal those
\* of the block it was in originally, and bindings are moved from T into B
\* only when B.thenb == B.elseb == T, T is not deadBlock, T # B, T has exactly
\* one predecessor, and both blocks have the same rubyBlockId and outerLoops.
C16_NoFusionAcrossScopes ==
    []BindingsInScope /\ [][MovesOnlyByFusion]_vars

\* A fusion moved a binding into another block, in a CFG that has a block of
\* another scope.
C16_Witness ==
    /\ lastRule = "fuse"
    /\ \E B \in Range(basicBlocks) : \E i \in 1 .. Len(blocks[B].exprs) :
          /\ blocks[B].exprs[i].kind # "null"
          /\ Origin(blocks[B].exprs[i].bind) # B
    /\ \E b \in Range(basicBlocks) : ~SameScope(b, entry)

----------------------------------------------------------------------------
(* Properties of the passes called one after another. *)

\* The step is a call of the pass named.
Calls(pass) == Callable /\ lastRule' = pass

\* removeDeadAssigns erases binding i of block B.
Erasable(B, i) ==
    LET b == blocks[B].exprs[i]
    IN  /\ ~isAliasForGlobal(b.bind)
        /\ b.bind \notin rnw.reads[B]
        /\ b.bind \notin Range(blocks[blocks[B].thenb].args)
        /\ b.bind \notin Range(blocks[blocks[B].elseb].args)
        /\ b.kind \in {"Ident", "Literal", "LoadSelf", "LoadArg", "LoadYieldParams"}

\* The positions in 1 .. n outside S, in ascending order.
KeptPositions(n, S) == Ascending((1 .. n) \ S)

\* C14: removeDeadAssigns, called without a language-server query, erases
\* binding b of block B exactly when b.bind is not an alias for a global, is
\* not in reads[B.id], is in the args of neither B.thenb nor B.elseb, and the
\* instruction is an Ident, Literal, LoadSelf, LoadArg or LoadYieldParams; it
\* keeps every other binding, in the order they had, and changes nothing else.
C14_ErasesDeadPureBindings ==
    [][(Calls("removeDeadAssigns") /\ ~lspQuery) =>
          \A B \in DOMAIN blocks :
              IF B \in Range(basicBlocks)
              THEN LET old == blocks[B].exprs
                       kept == KeptPositions(Len(old), {i \in 1 .. Len(old) : Erasable(B, i)})
                   IN  /\ blocks'[B] = [blocks[B] EXCEPT !.exprs = blocks'[B].exprs]
                       /\ Len(blocks'[B].exprs) = Len(kept)
                       /\ \A j \in 1 .. Len(kept) : blocks'[B].exprs[j] = old[kept[j]]
              ELSE blocks'[B] = blocks[B]]_vars

\* removeDeadAssigns erased a binding and kept a side-effect-free binding that
\* its block does not read, because a successor takes the variable as argument.
C14_Witness ==
    /\ lastRule = "removeDeadAssigns" /\ ~lspQuery
    /\ \E B \in Range(basicBlocks) : rnw.writes[B] \ Binds(blocks[B]) # {}
    /\ \E B \in Range(basicBlocks) : \E i \in 1 .. Len(blocks[B].exprs) :
          LET b == blocks[B].exprs[i]
          IN  /\ ~isAliasForGlobal(b.bind)
              /\ b.bind \notin rnw.reads[B]
              /\ b.kind \in SideEffectFree
              /\ b.bind \in Range(blocks[blocks[B].thenb].args)

\* Some predecessor of B lies in fewer loops than B.
EnteredFromOutside(B) ==
    \E P \in Range(blocks[B].backEdges) : blocks[P].outerLoops < blocks[B].outerLoops

\* C15: after markLoopHeaders on a CFG in which no block has LOOP_HEADER set,
\* a block B has LOOP_HEADER set if and only if some P in B.backEdges has
\* P.outerLoops < B.outerLoops, and nothing but that flag has changed.
C15_LoopHeadersMarked ==
    [][(/\ Calls("markLoopHeaders")
        /\ \A B \in Range(basicBlocks) : LOOP_HEADER \notin blocks[B].flags) =>
          /\ \A B \in Range(basicBlocks) :
                 /\ LOOP_HEADER \in blocks'[B].flags <=> EnteredFromOutside(B)
                 /\ blocks'[B].flags \ {LOOP_HEADER} = blocks[B].flags
                 /\ blocks'[B] = [blocks[B] EXCEPT !.flags = blocks'[B].flags]
          /\ \A B \in DOMAIN blocks \ Range(basicBlocks) : blocks'[B] = blocks[B]
          /\ UNCHANGED <<basicBlocks, forwardsTopoSort, minLoops, maxLoopWrite>>]_vars

\* markLoopHeaders marked the block that is entered from outside its loop and
\* left unmarked a block of the loop whose predecessor lies as deep.
C15_Witness ==
    /\ lastRule = "markLoopHeaders"
    /\ \E B \in Range(basicBlocks) : LOOP_HEADER \in blocks[B].flags /\ EnteredFromOutside(B)
    /\ \E B \in Range(basicBlocks) :
          /\ blocks[B].outerLoops > 0 /\ blocks[B].backEdges # <<>>
          /\ LOOP_HEADER \notin blocks[B].flags

\* C17: when lspQuery is not empty, simplify and removeDeadAssigns leave the
\* CFG completely unchanged: every step of simplify and the call of
\* removeDeadAssigns keep the blocks, their order, forwardsTopoSort and the two
\* maps as they were, so back edges are not deduplicated and conditions are
\* not normalised either, and simplify returns at once.
C17_UnchangedUnderQuery ==
    [][lspQuery =>
          /\ (pc \in {"start", "loop"} \/ Calls("removeDeadAssigns")) => Cfg' = Cfg
          /\ pc = "start" => pc' = "returned"]_vars

\* Under a query removeDeadAssigns has been called and a binding it erases
\* otherwise is still there, in a CFG that simplify would have changed.
C17_Witness ==
    /\ lspQuery /\ lastRule = "removeDeadAssigns"
    /\ rnw # EmptyRnW
    /\ \E B \in Range(basicBlocks) : \E i \in 1 .. Len(blocks[B].exprs) : Erasable(B, i)
    /\ \E B \in Range(basicBlocks) : SimplifyRule(blocks, B) # "none"
    /\ \E B \in Range(basicBlocks) :
          blocks[B].thenb = blocks[B].elseb /\ blocks[B].cond # unconditional

\* The edges of block b.
Edges(bs, b) == <<bs[b].thenb, bs[b].elseb, bs[b].backEdges>>

\* C20: across any sequence of passes the set of blocks only shrinks, and only
\* simplify shrinks it: no step adds a block or changes the rubyBlockId or
\* outerLoops of a block (ids are the keys of blocks and maxBasicBlockId is
\* never assigned), and dealias, markLoopHeaders, removeDeadAssigns,
\* computeMinMaxLoops and fillInBlockArguments leave the membership and order
\* of basicBlocks, thenb, elseb and backEdges of every block, and
\* forwardsTopoSort unchanged.
C20_OnlySimplifyRemovesBlocks ==
    [][/\ Range(basicBlocks') \subseteq Range(basicBlocks)
       /\ \A b \in Range(basicBlocks') :
              /\ blocks'[b].rubyBlockId = blocks[b].rubyBlockId
              /\ blocks'[b].outerLoops = blocks[b].outerLoops
       /\ Range(basicBlocks') # Range(basicBlocks) => pc = "loop"
       /\ Callable =>
              /\ basicBlocks' = basicBlocks
              /\ forwardsTopoSort' = forwardsTopoSort
              /\ \A b \in Range(basicBlocks) : Edges(blocks', b) = Edges(blocks, b)]_vars

\* simplify has erased a block, and dealias, markLoopHeaders,
\* fillInBlockArguments and removeDeadAssigns have each changed the blocks left.
C20_Witness ==
    /\ erased # {} /\ lastRule = "removeDeadAssigns"
    /\ aliases # NoAliases
    /\ \E B \in Range(basicBlocks) : aliases.out[B] # NoAlias
    /\ \E B \in Range(basicBlocks) : LOOP_HEADER \in blocks[B].flags
    /\ \E B \in Range(basicBlocks) : blocks[B].args # <<>>
    /\ \E B \in Range(basicBlocks) : rnw.writes[B] \ Binds(blocks[B]) # {}

----------------------------------------------------------------------------
(* The rules of simplify. *)

\* C21: simplify stops in a normal form: when it returns, no rule is
\* applicable to any block left in basicBlocks: none can be removed, fused
\* with its successor, collapsed over an empty successor, or have its then- or
\* else-exit shortcut.
C21_NormalForm ==
    Returned => \A B \in Range(basicBlocks) : SimplifyRule(blocks, B) = "none"

\* A step of the sweep loop in which the named rule fires on CurBB.
Fires(rule) == InLoop /\ tick' # tick /\ lastRule' = rule

\* The guard the collapse shares with the fusion: lines 51-52.
OuterGuard(B, T) ==
    /\ blocks[B].thenb = T /\ blocks[B].elseb = T
    /\ T # deadBlock /\ T # B
    /\ blocks[B].rubyBlockId = blocks[T].rubyBlockId

\* The guard of the fusion alone: line 53.
InnerGuard(B, T) ==
    /\ Cardinality(Range(blocks[T].backEdges)) = 1
    /\ blocks[T].outerLoops = blocks[B].outerLoops

AdoptsExit(B, T) ==
    /\ blocks'[B].cond = blocks[T].cond
    /\ blocks'[B].thenb = blocks[T].thenb
    /\ blocks'[B].elseb = blocks[T].elseb

\* C22 as stated: the collapse fires under the guards of the fusion: B adopts
\* the exit of T only when B jumps unconditionally to T, T is neither
\* deadBlock nor B, both have the same rubyBlockId, T has exactly one
\* predecessor and the outerLoops of B, and T is empty and does not end in
\* blockCall.
C22_CollapseUnderFusionGuards ==
    [][Fires("collapse") =>
         LET B == CurBB
             T == blocks[B].thenb
         IN  /\ OuterGuard(B, T) /\ InnerGuard(B, T)
             /\ blocks[T].exprs = <<>> /\ blocks[T].cond # blockCall]_vars

\* C22: the collapse fires on B only when B jumps unconditionally to T, T is
\* neither deadBlock nor B, both have the same rubyBlockId, T is empty and does
\* not end in blockCall, and the fusion is not possible: T has another back
\* edge or other outerLoops than B. B then adopts the exit of T.
C22_CollapseWhenNotFusable ==
    [][Fires("collapse") =>
         LET B == CurBB
             T == blocks[B].thenb
         IN  /\ OuterGuard(B, T)
             /\ ~(Len(blocks[T].backEdges) = 1
                   /\ blocks[T].outerLoops = blocks[B].outerLoops)
             /\ blocks[T].exprs = <<>> /\ blocks[T].cond # blockCall
             /\ AdoptsExit(B, T)]_vars

\* A collapse has just fired on CurBB over a block that another block still
\* jumps to, and one over a block of another loop depth.
C22_Witness ==
    /\ InLoop /\ lastRule = "collapse"
    /\ \E T \in DOMAIN blocks \ {CurBB, deadBlock} :
          /\ blocks[T].exprs = <<>> /\ blocks[T].cond = blocks[CurBB].cond
          /\ blocks[T].thenb = blocks[CurBB].thenb
          /\ blocks[T].elseb = blocks[CurBB].elseb
          /\ blocks[T].rubyBlockId = blocks[CurBB].rubyBlockId
          /\ blocks[T].backEdges # <<>>
          /\ CurBB \notin Range(blocks[T].backEdges)

\* C23: the else-shortcut redirects the else-exit of B from E to the exit of
\* E only when E is not deadBlock, B and E have the same rubyBlockId, E is
\* empty and unconditional, and the exit of E is not already the else-exit of
\* B; no shortcut bypasses a block of another rubyBlockId.
C23_ElseShortcutGuards ==
    [][Fires("else") =>
         LET B == CurBB
             E == blocks[B].elseb
         IN  /\ E # deadBlock
             /\ blocks[B].rubyBlockId = blocks[E].rubyBlockId
             /\ blocks[E].exprs = <<>>
             /\ blocks[E].thenb = blocks[E].elseb
             /\ blocks[B].elseb # blocks[E].elseb
             /\ blocks'[B].elseb = blocks[E].elseb]_vars

----------------------------------------------------------------------------
(* What a CFG executes. *)

\* The longest run of bindings that is compared.
MaxRun == 3

Prefixes(s) == {[i \in 1 .. n |-> s[i]] : n \in 0 .. Len(s)}

\* The sequences of at most k bindings that control can execute from the start
\* of block b on, following thenb and elseb; silent holds the empty blocks
\* passed since the last binding, and deadBlock ends every path.
RECURSIVE Runs(_, _, _, _)
Runs(bs, b, k, silent) ==
    IF b = deadBlock \/ k = 0 \/ (bs[b].exprs = <<>> /\ b \in silent) THEN {<<>>}
    ELSE LET exprs == bs[b].exprs
             n == Len(exprs)
             passed == IF n = 0 THEN silent \cup {b} ELSE {}
         IN  IF n >= k THEN Prefixes([i \in 1 .. k |-> exprs[i]])
             ELSE Prefixes(exprs)
                    \cup UNION {{exprs \o r : r \in Runs(bs, s, k - n, passed)} :
                                   s \in {bs[b].thenb, bs[b].elseb}}

Executes(bs) == Runs(bs, entry, MaxRun, {})

\* C24: simplify preserves what executes: the sequences of bindings that control
\* can execute from entry on are the same in the CFG simplify returns as in the
\* CFG it was handed; the bindings of entry come first, none is dropped,
\* duplicated or moved behind a loop.
C24_ExecutesTheSame ==
    Returned => Executes(blocks) = Executes(snapshot)

----------------------------------------------------------------------------
(* The alias map and overwrites. *)

\* The longest path of blocks that is followed to a use.
MaxPath == 5

\* The paths of at most k blocks that start at block b and stay off deadBlock.
RECURSIVE PathsFrom(_, _, _)
PathsFrom(bs, b, k) ==
    IF k = 0 \/ b = deadBlock THEN {}
    ELSE {<<b>>} \cup UNION {{<<b>> \o q : q \in PathsFrom(bs, s, k - 1)} :
                                s \in {bs[b].thenb, bs[b].elseb}}

PathsTo(bs, b) == {p \in PathsFrom(bs, entry, MaxPath) : p[Len(p)] = b}

\* The bindings executed along path p up to and including the first n bindings
\* of its last block.
RECURSIVE Along(_, _, _)
Along(bs, p, n) ==
    IF Len(p) = 1 THEN [i \in 1 .. n |-> bs[p[1]].exprs[i]]
    ELSE bs[p[1]].exprs \o Along(bs, Tail(p), n)

\* Among the first n bindings of seq the latest write to t is an identity copy
\* that resolved to v, and v is not written after it.
RECURSIVE CopyOf(_, _, _, _)
CopyOf(seq, n, t, v) ==
    LET writes == {p \in 1 .. n : seq[p].bind = t}
    IN  /\ writes # {}
        /\ LET p == CHOOSE q \in writes : \A r \in writes : r <= q
               w == seq[p].ops[1]
           IN  /\ seq[p].kind = "Ident"
               /\ \A q \in p + 1 .. n : seq[q].bind # v
               /\ (w = v \/ (isSyntheticTemporary(w) /\ CopyOf(seq, p - 1, w, v)))

\* The use of t after the first n bindings of block b may be replaced by v.
MayReplace(b, n, t, v) ==
    \A p \in PathsTo(snapshot, b) :
        LET seq == Along(snapshot, p, n) IN CopyOf(seq, Len(seq), t, v)

\* C25: dealias is sound with respect to overwrites: wherever it replaced a use
\* of a synthetic temporary t by v, in an operand or in a branch condition, on
\* every path from entry to the use the latest write to t is an identity copy
\* that resolved to v and v is not written after it; a temporary rebound by
\* another instruction than Ident is not replaced by the variable it copied
\* before.
C25_NoStaleAlias ==
    AfterDealias =>
        \A b \in DealiasLive :
            /\ \A o \in Operands(snapshot, b) :
                   LET t == snapshot[b].exprs[o[1]].ops[o[2]]
                       v == blocks[b].exprs[o[1]].ops[o[2]]
                   IN  v # t => MayReplace(b, o[1] - 1, t, v)
            /\ blocks[b].cond # snapshot[b].cond
                  => MayReplace(b, Len(snapshot[b].exprs), snapshot[b].cond, blocks[b].cond)

----------------------------------------------------------------------------
(* The kill of dead variables under the loop-depth guard. *)

\* The successors of B that the upperBounds1 loop reads from.
LiveSuccessors(B) == {blocks[B].thenb, blocks[B].elseb} \ {deadBlock}

\* C26: the kill of dead variables in fillInBlockArguments is applied exactly
\* under the loop-depth guard: for every block B of forwardsTopoSort and every
\* v of dead[B], if B.outerLoops <= minLoops[v] then v is not in B.args, and
\* otherwise v stays pinned: v is in B.args whenever v is in the first upper
\* bound of a successor of B other than deadBlock and in the second upper
\* bound of B.
C26_KillUnderLoopGuard ==
    AfterFillInBlockArguments =>
        \A u1 \in {upperBounds1(PassContext)}, u2 \in {upperBounds2(PassContext)} :
            \A B \in Range(forwardsTopoSort) : \A v \in rnw.dead[B] :
                IF blocks[B].outerLoops <= MinLoopsAt(minLoops, v)
                THEN v \notin Range(blocks[B].args)
                ELSE ((\E S \in LiveSuccessors(B) : v \in u1[S]) /\ v \in u2[B])
                        => v \in Range(blocks[B].args)

============================================================================
